---- MODULE Spec2Model ----
(***************************************************************************)
(* Chess Artist (chess-artist.py): the move classifier (GetGoodNag,        *)
(* GetBadNag), the annotation writer (WriteNotation and the Write*         *)
(* methods), the PGN annotation loop (AnnotatePgn), MateDistanceToValue,   *)
(* and a whole run from main on, in which every engine request (one        *)
(* process, driven line by line over its pipes) is spelled out.            *)
(*                                                                         *)
(* Scores are pawn-unit floats in the program; here they are integers in   *)
(* centipawns (-1.50 is -150), so every comparison of the source is exact. *)
(* A Python value that may be None is a sequence: <<>> is None, <<v>> is v.*)
(***************************************************************************)
EXTENDS Integers, Sequences, FiniteSets, TLC

VARIABLES
    nagCall,      \* classifier call under test: its arguments
    nagBranch,    \* GetBadNag: moveNag after the if/elif chain, before the override
    nagResult,    \* the glyph the classifier returned
    opt,          \* Analyze options: -book, -eval, -movetime, -movestart, -job
    engIdName,    \* self.engIdName, a sequence of words
    writeCnt,     \* self.writeCnt, units written on the current line
    out,          \* structure of the output file: tags, units, newlines, results
    lastUnit,     \* text appended by the last WriteNotation call, as tokens
    lastCall,     \* arguments of the last WriteNotation call and writeCnt before it
    err,          \* the exception that ended the run, "none" while it runs
    pc,           \* position in AnnotatePgn / in the writer sequence
    gameCnt,      \* AnnotatePgn: gameCnt
    ply,          \* half-moves of the current game already handled
    side,         \* gameNode.board().turn of the next half-move (TRUE is White)
    fmvn,         \* gameNode.board().fullmove_number of the next half-move
    isCereEnd,    \* AnnotatePgn: isCereEnd
    mateCall,     \* MateDistanceToValue under test: two mate distances
    mateValue,    \* the values it returned for them, <<>> before the call
    fileType,     \* main: "pgn" or "epd", from the input file's name
    procs,        \* the engine processes spawned so far: "alive" or "exited"
    sess,         \* the engine request in progress: its locals and its pipe
    mv,           \* locals of the half-move or epd record being annotated
    cxCall,       \* GetComplexityNumber under test: its savedMove argument
    cxResult,     \* what it returned or raised, <<>> before the call
    heard,        \* a search on its own: the lines read by its last loop so far
    cfg,          \* main: the files named on the command line, as found on disk
    test          \* the epd records read so far, and the counters of TestEngineWithEpd

vars == <<nagCall, nagBranch, nagResult, opt, engIdName, writeCnt, out, lastUnit,
          lastCall, err, pc, gameCnt, ply, side, fmvn, isCereEnd,
          mateCall, mateValue, fileType, procs, sess, mv, cxCall, cxResult, heard,
          cfg, test>>

nagVars == <<nagCall, nagBranch, nagResult>>
runVars == <<opt, engIdName, writeCnt, out, lastUnit, lastCall, err, pc, gameCnt,
             ply, side, fmvn, isCereEnd>>
mateVars == <<mateCall, mateValue>>
cxVars == <<cxCall, cxResult, heard>>
\* what only main and TestEngineWithEpd change
jobVars == <<cfg, test>>
engVars == <<fileType, procs, sess, mv>>

----------------------------------------------------------------------------
(* Bounds of the model *)

\* scores tried on each side of every classifier threshold, in centipawns
ScoreSpread == 1
\* largest pv move change count tried
MaxMoveChanges == 5
\* WriteNotation calls in one writer sequence
MaxCalls == 6
\* games in the input file, half-moves in a game
MaxGames == 2
MaxPlies == 3
\* mate distances tried on each side of zero, and the largest one an engine sends
MaxMate == 4
MateLimit == 500
\* engine processes spawned in one run
MaxRequests == 4
\* reply lines read in one search or eval loop before the line that ends it
MaxLines == 1
\* records in the epd input file
MaxRecords == 2
\* samples in the savedMove list handed to GetComplexityNumber on its own
MaxTrace == 3
\* lines read by the last loop of a search on its own before the line that ends it
MaxHeard == 2

(* Program constants *)
BOOK_MOVE_LIMIT == 30
WIN_SCORE == 600

MAX_SCORE == 32000
BOOK_SEARCH_TIME == 200
TEST_SEARCH_SCORE == 100000
TEST_SEARCH_DEPTH == 1000

None == <<>>
Some(v) == <<v>>
IsNone(x) == x = <<>>
Val(x) == x[1]

\* no engine request in progress
NoSession ==
    [kind |-> "none", phase |-> "idle", side |-> TRUE, fen |-> "", sent |-> <<>>,
     nlines |-> 0, eof |-> FALSE, broken |-> FALSE, sawInfoDepth |-> FALSE,
     idName |-> None, isInfoDepth |-> FALSE, scoreCp |-> TEST_SEARCH_SCORE,
     scoreKind |-> "", bestMove |-> None, depthSearched |-> TEST_SEARCH_DEPTH,
     savedMove |-> <<>>, exc |-> "", ret |-> None]

\* the locals of AnnotatePgn's move loop before step (1) of a half-move
NoMove ==
    [cereBookMove |-> None, posScore |-> None, complexityNumber |-> 0, moveChanges |-> 0,
     engBestMove |-> None, engBestScore |-> None, rawPos |-> None, rawEng |-> None,
     probed |-> FALSE, rawKind |-> ""]

\* the command line main accepts without a warning: every file is where it should be
NoCfg ==
    [infile |-> TRUE, sameName |-> FALSE, engfile |-> TRUE, ext |-> "pgn", cereBookFile |-> TRUE]

\* TestEngineWithEpd's counters before the first record
NoTest == [cntValidEpd |-> 0, cntCorrect |-> 0, records |-> <<>>]

MateIdle == mateCall = <<0, 0>> /\ mateValue = <<>>
CxIdle == cxCall = <<>> /\ cxResult = <<>> /\ heard = <<>>
JobIdle == cfg = NoCfg /\ test = NoTest
EngIdle == fileType = "pgn" /\ procs = <<>> /\ sess = NoSession /\ mv = NoMove /\ JobIdle

\* glyphs
NagNull == "$0"
NagGood == "$1"
NagMistake == "$2"
NagVeryGood == "$3"
NagBlunder == "$4"
NagInteresting == "$5"
NagDubious == "$6"

\* the score thresholds of the two classifiers, both signs, and zero
Thresholds == {-300, -150, -75, -15, 0, 15, 75, 150, 300}
\* the scores of the documented examples: -2.0, +0.5, +1.0
ExampleScores == {-200, 50, 100}
Scores == {t + d : t \in Thresholds, d \in -ScoreSpread..ScoreSpread} \cup ExampleScores
\* complexity numbers on each side of 20, 30 and 45, and zero
Complexities == {0} \cup {t + d : t \in {20, 30, 45}, d \in -ScoreSpread..ScoreSpread}
MoveChangeCounts == 0..MaxMoveChanges

----------------------------------------------------------------------------
(* MoveClassifier *)

\* the scores taken as they come, whatever the side
SidePovWhiteOnly(sd, score) == score

\* if not side: posScore = -1 * posScore (and the same for engScore)
SidePov(sd, score) == IF sd THEN score ELSE -1 * score

\* GetGoodNag with the Good branch's complexity test dropped
GetGoodNagNoComplexity(sd, posScore0, engScore0, complexityNumber, moveChanges) ==
    LET posScore == SidePov(sd, posScore0)
        engScore == SidePov(sd, engScore0)
    IN  IF /\ posScore > engScore
           /\ moveChanges >= 4
           /\ complexityNumber >= 45
           /\ posScore >= 75
           /\ posScore <= 300
        THEN NagVeryGood
        ELSE IF /\ moveChanges >= 3
                /\ posScore >= -15
                /\ posScore <= 300
        THEN NagGood
        ELSE IF /\ moveChanges >= 2
                /\ complexityNumber >= 20
                /\ posScore >= -15
                /\ posScore <= 300
        THEN NagInteresting
        ELSE NagNull

GetGoodNag(sd, posScore0, engScore0, complexityNumber, moveChanges) ==
    LET posScore == SidePov(sd, posScore0)
        engScore == SidePov(sd, engScore0)
    IN  IF /\ posScore > engScore
           /\ moveChanges >= 4
           /\ complexityNumber >= 45
           /\ posScore >= 75
           /\ posScore <= 300
        THEN NagVeryGood
        ELSE IF /\ moveChanges >= 3
                /\ complexityNumber >= 30
                /\ posScore >= -15
                /\ posScore <= 300
        THEN NagGood
        ELSE IF /\ moveChanges >= 2
                /\ complexityNumber >= 20
                /\ posScore >= -15
                /\ posScore <= 300
        THEN NagInteresting
        ELSE NagNull

\* a Blunder branch that tests the played move's score alone
BadNagBranchesNoEngTest(posScore, engScore) ==
    IF posScore < -150 THEN NagBlunder
    ELSE IF posScore < -75 /\ engScore >= -75 THEN NagMistake
    ELSE IF posScore < -15 /\ engScore >= -15 THEN NagDubious
    ELSE IF engScore > 150 /\ posScore <= 150 THEN NagMistake
    ELSE NagNull

\* the if/elif chain of GetBadNag, on side-POV scores
BadNagBranches(posScore, engScore) ==
    IF posScore < -150 /\ engScore >= -150 THEN NagBlunder
    ELSE IF posScore < -75 /\ engScore >= -75 THEN NagMistake
    ELSE IF posScore < -15 /\ engScore >= -15 THEN NagDubious
    ELSE IF engScore > 150 /\ posScore <= 150 THEN NagMistake
    ELSE NagNull

\* an override that fires only on a strictly greater played-move score
BadNagOverrideStrict(moveNag, posScore, engScore) ==
    IF posScore > engScore THEN NagInteresting ELSE moveNag

\* the final "if posScore >= engScore" of GetBadNag
BadNagOverride(moveNag, posScore, engScore) ==
    IF posScore >= engScore THEN NagInteresting ELSE moveNag

GetBadNag(sd, posScore0, engScore0) ==
    LET posScore == SidePov(sd, posScore0)
        engScore == SidePov(sd, engScore0)
    IN  BadNagOverride(BadNagBranches(posScore, engScore), posScore, engScore)

----------------------------------------------------------------------------
(* AnnotationWriter: the text of one move unit, as tokens *)

Tok(k, n, s) == [k |-> k, n |-> n, s |-> s]
\* '%d. ' before a White move
WhiteMoveNo(n) == Tok("num", n, ".")
\* '%d... ' before a Black move
BlackMoveNo(n) == Tok("num", n, "...")
MoveNo(sd, n) == IF sd THEN WhiteMoveNo(n) ELSE BlackMoveNo(n)
\* '%s ' of a move in SAN
San(m) == Tok("san", 0, m)
\* '%s ' of a glyph
NagTok(g) == Tok("nag", 0, g)
\* '{%+0.2f} ' of a score
ScoreComment(v) == Tok("score", v, "")
\* '(%d. %s {%s}) ' of the book alternative, bookComment = 'cerebellum'
BookVariation(sd, n, bookMove) ==
    <<Tok("(", 0, ""), MoveNo(sd, n), San(bookMove), Tok("comment", 0, "cerebellum"),
      Tok(")", 0, "")>>
\* '(%d. %s {%+0.2f - %s}) ' of the engine alternative
EngVariation(sd, n, engMove, engScore, engShortName) ==
    <<Tok("(", 0, ""), MoveNo(sd, n), San(engMove), Tok("engcomment", engScore, engShortName),
      Tok(")", 0, "")>>
NL == Tok("nl", 0, "")

\* self.engIdName.split()[0]
EngShortName(idName) == Head(idName)

\* what a writer did: the new self.writeCnt, the text appended, the exception raised
Written(cnt, text) == [writeCnt |-> cnt, text |-> text, err |-> "none"]
Raised(cnt, e) == [writeCnt |-> cnt, text |-> <<>>, err |-> e]

\* a line break only once the counter has passed the limit
FormatOutputStrict(cnt, text, limit) ==
    IF cnt > limit THEN Written(0, text \o <<NL>>) ELSE Written(cnt, text)

\* the line broken without "self.writeCnt = 0"
FormatOutputNoReset(cnt, text, limit) ==
    IF cnt >= limit THEN Written(cnt, text \o <<NL>>) ELSE Written(cnt, text)

\* "Format output, don't write movetext in one long line": the tail of each writer's
\* Black branch, cnt being self.writeCnt after its increment
FormatOutput(cnt, text, limit) ==
    IF cnt >= limit THEN Written(0, text \o <<NL>>) ELSE Written(cnt, text)

WriteSanMove(cnt, sd, moveNumber, sanMove) ==
    IF sd
    THEN Written(cnt + 1, <<WhiteMoveNo(moveNumber), San(sanMove)>>)
    ELSE FormatOutput(cnt + 1, <<San(sanMove)>>, 4)

WritePosScore(cnt, sd, moveNumber, sanMove, posScore) ==
    IF sd
    THEN Written(cnt + 1, <<WhiteMoveNo(moveNumber), San(sanMove), ScoreComment(posScore)>>)
    ELSE FormatOutput(cnt + 1, <<San(sanMove), ScoreComment(posScore)>>, 4)

\* WritePosScoreEngMove with Black's played = engine format carrying a move number
WritePosScoreEngMoveNumbered(cnt, sd, moveNumber, sanMove, posScore, engMove, engScore, complexityNumber, moveChanges, engShortName) ==
    IF sd
    THEN IF sanMove # engMove
         THEN Written(cnt + 1,
                  <<WhiteMoveNo(moveNumber), San(sanMove),
                    NagTok(GetBadNag(sd, posScore, engScore)), ScoreComment(posScore)>>
                  \o EngVariation(sd, moveNumber, engMove, engScore, engShortName))
         ELSE Written(cnt + 1,
                  <<WhiteMoveNo(moveNumber), San(sanMove),
                    NagTok(GetGoodNag(sd, posScore, engScore, complexityNumber, moveChanges)),
                    ScoreComment(posScore)>>)
    ELSE IF sanMove # engMove
         THEN FormatOutput(cnt + 1,
                  <<BlackMoveNo(moveNumber), San(sanMove),
                    NagTok(GetBadNag(sd, posScore, engScore)), ScoreComment(posScore)>>
                  \o EngVariation(sd, moveNumber, engMove, engScore, engShortName), 2)
         ELSE FormatOutput(cnt + 1,
                  <<BlackMoveNo(moveNumber), San(sanMove),
                    NagTok(GetGoodNag(sd, posScore, engScore, complexityNumber, moveChanges)),
                    ScoreComment(posScore)>>, 2)

WritePosScoreEngMove(cnt, sd, moveNumber, sanMove, posScore, engMove, engScore, complexityNumber, moveChanges, engShortName) ==
    IF sd
    THEN IF sanMove # engMove
         THEN Written(cnt + 1,
                  <<WhiteMoveNo(moveNumber), San(sanMove),
                    NagTok(GetBadNag(sd, posScore, engScore)), ScoreComment(posScore)>>
                  \o EngVariation(sd, moveNumber, engMove, engScore, engShortName))
         ELSE Written(cnt + 1,
                  <<WhiteMoveNo(moveNumber), San(sanMove),
                    NagTok(GetGoodNag(sd, posScore, engScore, complexityNumber, moveChanges)),
                    ScoreComment(posScore)>>)
    ELSE IF sanMove # engMove
         THEN FormatOutput(cnt + 1,
                  <<BlackMoveNo(moveNumber), San(sanMove),
                    NagTok(GetBadNag(sd, posScore, engScore)), ScoreComment(posScore)>>
                  \o EngVariation(sd, moveNumber, engMove, engScore, engShortName), 2)
         ELSE FormatOutput(cnt + 1,
                  <<San(sanMove),
                    NagTok(GetGoodNag(sd, posScore, engScore, complexityNumber, moveChanges)),
                    ScoreComment(posScore)>>, 2)

WriteBookMove(cnt, sd, moveNumber, sanMove, bookMove) ==
    IF sd
    THEN Written(cnt + 1,
             <<WhiteMoveNo(moveNumber), San(sanMove)>>
             \o BookVariation(sd, moveNumber, bookMove))
    ELSE FormatOutput(cnt + 1,
             <<BlackMoveNo(moveNumber), San(sanMove)>>
             \o BookVariation(sd, moveNumber, bookMove), 2)

WritePosScoreBookMove(cnt, sd, moveNumber, sanMove, bookMove, posScore) ==
    IF sd
    THEN Written(cnt + 1,
             <<WhiteMoveNo(moveNumber), San(sanMove), ScoreComment(posScore)>>
             \o BookVariation(sd, moveNumber, bookMove))
    ELSE FormatOutput(cnt + 1,
             <<BlackMoveNo(moveNumber), San(sanMove), ScoreComment(posScore)>>
             \o BookVariation(sd, moveNumber, bookMove), 2)

WritePosScoreBookMoveEngMove(cnt, sd, moveNumber, sanMove, bookMove, posScore, engMove, engScore, engShortName) ==
    IF sd
    THEN IF sanMove # engMove
         THEN Written(cnt + 1,
                  <<WhiteMoveNo(moveNumber), San(sanMove),
                    NagTok(GetBadNag(sd, posScore, engScore)), ScoreComment(posScore)>>
                  \o BookVariation(sd, moveNumber, bookMove)
                  \o EngVariation(sd, moveNumber, engMove, engScore, engShortName))
         ELSE Written(cnt + 1,
                  <<WhiteMoveNo(moveNumber), San(sanMove), ScoreComment(posScore)>>
                  \o BookVariation(sd, moveNumber, bookMove))
    ELSE IF sanMove # engMove
         THEN FormatOutput(cnt + 1,
                  <<BlackMoveNo(moveNumber), San(sanMove),
                    NagTok(GetBadNag(sd, posScore, engScore)), ScoreComment(posScore)>>
                  \o BookVariation(sd, moveNumber, bookMove)
                  \o EngVariation(sd, moveNumber, engMove, engScore, engShortName), 2)
         ELSE FormatOutput(cnt + 1,
                  <<BlackMoveNo(moveNumber), San(sanMove), ScoreComment(posScore)>>
                  \o BookVariation(sd, moveNumber, bookMove), 2)

\* Black's played = engine branch formats posScore, a name the method does not have:
\* NameError, after the file was opened and the counter incremented
WriteBookMoveEngMove(cnt, sd, moveNumber, sanMove, bookMove, engMove, engScore, engShortName) ==
    IF sd
    THEN IF sanMove # engMove
         THEN Written(cnt + 1,
                  <<WhiteMoveNo(moveNumber), San(sanMove)>>
                  \o BookVariation(sd, moveNumber, bookMove)
                  \o EngVariation(sd, moveNumber, engMove, engScore, engShortName))
         ELSE Written(cnt + 1,
                  <<WhiteMoveNo(moveNumber), San(sanMove)>>
                  \o BookVariation(sd, moveNumber, bookMove))
    ELSE IF sanMove # engMove
         THEN FormatOutput(cnt + 1,
                  <<BlackMoveNo(moveNumber), San(sanMove)>>
                  \o BookVariation(sd, moveNumber, bookMove)
                  \o EngVariation(sd, moveNumber, engMove, engScore, engShortName), 2)
         ELSE Raised(cnt + 1, "NameError")

\* WriteEngMove(self, side, moveNumber, sanMove, bookMove, engMove, engScore): it
\* neither counts the unit nor breaks the line
WriteEngMove(cnt, sd, moveNumber, sanMove, bookMove, engMove, engScore, engShortName) ==
    IF sanMove # engMove
    THEN Written(cnt, <<MoveNo(sd, moveNumber), San(sanMove)>>
                      \o EngVariation(sd, moveNumber, engMove, engScore, engShortName))
    ELSE Written(cnt, <<MoveNo(sd, moveNumber), San(sanMove)>>)

\* self.WriteEngMove(side, fmvn, sanMove, engMove, engScore): five arguments for a
\* method of six, TypeError before the body runs
CallWriteEngMove(cnt, sd, moveNumber, sanMove, engMove, engScore) ==
    Raised(cnt, "TypeError")

\* WriteNotation below its game-over test: the cases (1) to (8); posScore, bookMove
\* and engMove are optional, engScore comes with engMove
WriteNotationFormats(cnt, sd, n, sanMove, bookMove, posScore, isGameOver, engMove, engScore, complexityNumber, moveChanges, idName) ==
    IF ~IsNone(posScore) /\ IsNone(bookMove) /\ IsNone(engMove)
    THEN WritePosScore(cnt, sd, n, sanMove, Val(posScore))
    ELSE IF ~IsNone(posScore) /\ ~IsNone(bookMove) /\ IsNone(engMove)
    THEN WritePosScoreBookMove(cnt, sd, n, sanMove, Val(bookMove), Val(posScore))
    ELSE IF ~IsNone(posScore) /\ IsNone(bookMove) /\ ~IsNone(engMove)
    THEN WritePosScoreEngMove(cnt, sd, n, sanMove, Val(posScore), Val(engMove),
                              Val(engScore), complexityNumber, moveChanges,
                              EngShortName(idName))
    ELSE IF ~IsNone(posScore) /\ ~IsNone(bookMove) /\ ~IsNone(engMove)
    THEN WritePosScoreBookMoveEngMove(cnt, sd, n, sanMove, Val(bookMove), Val(posScore),
                                      Val(engMove), Val(engScore), EngShortName(idName))
    ELSE IF IsNone(posScore) /\ ~IsNone(bookMove) /\ IsNone(engMove)
    THEN WriteBookMove(cnt, sd, n, sanMove, Val(bookMove))
    ELSE IF IsNone(posScore) /\ ~IsNone(bookMove) /\ ~IsNone(engMove)
    THEN WriteBookMoveEngMove(cnt, sd, n, sanMove, Val(bookMove), Val(engMove),
                              Val(engScore), EngShortName(idName))
    ELSE IF IsNone(posScore) /\ IsNone(bookMove) /\ ~IsNone(engMove)
    THEN CallWriteEngMove(cnt, sd, n, sanMove, Val(engMove), Val(engScore))
    ELSE IF IsNone(posScore) /\ IsNone(bookMove)
    THEN WriteSanMove(cnt, sd, n, sanMove)
    ELSE Written(cnt, <<>>)

\* WriteNotation without its case (0)
WriteNotationNoGameOver(cnt, sd, n, sanMove, bookMove, posScore, isGameOver, engMove, engScore, complexityNumber, moveChanges, idName) ==
    WriteNotationFormats(cnt, sd, n, sanMove, bookMove, posScore, isGameOver, engMove,
                         engScore, complexityNumber, moveChanges, idName)

WriteNotation(cnt, sd, n, sanMove, bookMove, posScore, isGameOver, engMove, engScore, complexityNumber, moveChanges, idName) ==
    IF isGameOver
    THEN WriteSanMove(cnt, sd, n, sanMove)
    ELSE WriteNotationFormats(cnt, sd, n, sanMove, bookMove, posScore, isGameOver, engMove,
                              engScore, complexityNumber, moveChanges, idName)

----------------------------------------------------------------------------
(* The classifiers called on their own *)

BadNagCalls ==
    [fn : {"GetBadNag"}, side : BOOLEAN, posScore : Scores, engScore : Scores,
     complexityNumber : {0}, moveChanges : {0}]
GoodNagCalls ==
    [fn : {"GetGoodNag"}, side : BOOLEAN, posScore : Scores, engScore : Scores,
     complexityNumber : Complexities, moveChanges : MoveChangeCounts]
NoNagCall ==
    [fn |-> "none", side |-> TRUE, posScore |-> 0, engScore |-> 0,
     complexityNumber |-> 0, moveChanges |-> 0]

\* the options main() builds by default for a pgn input, evalOption = 'static'
DefaultOpt ==
    [book |-> "none", eval |-> "static", movetime |-> 0, enghash |-> 32, engthreads |-> 1,
     movestart |-> 8, job |-> "analyze"]

EngineNames == {<<"Brainfish", "091117">>, <<"Stockfish", "8">>}

NagIdle == nagCall = NoNagCall /\ nagBranch = "" /\ nagResult = ""

RunIdle ==
    /\ opt = DefaultOpt
    /\ engIdName = <<"Stockfish", "8">>
    /\ writeCnt = 0
    /\ out = <<>>
    /\ lastUnit = <<>>
    /\ lastCall = None
    /\ err = "none"
    /\ pc = "idle"
    /\ gameCnt = 0
    /\ ply = 0
    /\ side = TRUE
    /\ fmvn = 1
    /\ isCereEnd = FALSE

InitNag ==
    /\ nagCall \in BadNagCalls \cup GoodNagCalls
    /\ nagBranch = ""
    /\ nagResult = ""
    /\ RunIdle
    /\ MateIdle
    /\ EngIdle
    /\ CxIdle

CallGetBadNag ==
    /\ nagCall.fn = "GetBadNag"
    /\ nagResult = ""
    /\ nagBranch' = BadNagBranches(SidePov(nagCall.side, nagCall.posScore),
                                   SidePov(nagCall.side, nagCall.engScore))
    /\ nagResult' = GetBadNag(nagCall.side, nagCall.posScore, nagCall.engScore)
    /\ UNCHANGED <<nagCall, runVars, mateVars, cxVars, jobVars, engVars>>

CallGetGoodNag ==
    /\ nagCall.fn = "GetGoodNag"
    /\ nagResult = ""
    /\ nagResult' = GetGoodNag(nagCall.side, nagCall.posScore, nagCall.engScore,
                               nagCall.complexityNumber, nagCall.moveChanges)
    /\ UNCHANGED <<nagCall, nagBranch, runVars, mateVars, cxVars, jobVars, engVars>>

NextNag == CallGetBadNag \/ CallGetGoodNag

SpecNag == InitNag /\ [][NextNag]_vars

----------------------------------------------------------------------------
(* MateDistanceToValue called on its own *)

\* a value that grows with the distance when the side is being mated
MateDistanceToValueSameOrder(d) ==
    IF d < 0 THEN 2 * d - MAX_SCORE
    ELSE IF d > 0 THEN MAX_SCORE - 2 * d + 1
    ELSE 0

MateDistanceToValue(d) ==
    IF d < 0 THEN -2 * d - MAX_SCORE
    ELSE IF d > 0 THEN MAX_SCORE - 2 * d + 1
    ELSE 0

\* the n of 'score mate n': around zero, and the longest mates
MateDistances == (-MaxMate..MaxMate) \cup {-MateLimit, MateLimit}

InitMate ==
    /\ mateCall \in MateDistances \X MateDistances
    /\ mateValue = <<>>
    /\ NagIdle
    /\ RunIdle
    /\ EngIdle
    /\ CxIdle

CallMateDistanceToValue ==
    /\ mateValue = <<>>
    /\ mateValue' = <<MateDistanceToValue(mateCall[1]), MateDistanceToValue(mateCall[2])>>
    /\ UNCHANGED <<mateCall, cxVars, jobVars, nagVars, runVars, engVars>>

NextMate == CallMateDistanceToValue

SpecMate == InitMate /\ [][NextMate]_vars

----------------------------------------------------------------------------
(* The output file and the arguments of a WriteNotation call *)

HasTok(text, k) == \E i \in DOMAIN text : text[i].k = k
SideName(sd) == IF sd THEN "w" ELSE "b"

\* the file opened with 'w': what was there is lost
WriteToFile(content, text) == text
\* with open(self.outfn, 'a+') as f: f.write(...)
AppendToFile(content, text) == content \o text

\* what a call leaves in the file: the unit, and the line break when it wrote one
Appended(sd, n, text) ==
    IF text = <<>> THEN <<>>
    ELSE <<Tok("unit", n, SideName(sd))>> \o (IF HasTok(text, "nl") THEN <<NL>> ELSE <<>>)

\* nextNode.san(): the move played
PlayedMove(sd) == IF sd THEN "e4" ELSE "e5"
\* the engine's bestmove in SAN: the move played or another one
EngineMoves(sd) == {PlayedMove(sd), "Nf3"}
BookMoves == {"d4"}

CallRecord(cnt, sd, n, sanMove, bookMove, posScore, isGameOver, engMove, engScore, complexityNumber, moveChanges) ==
    [cntBefore |-> cnt, side |-> sd, fmvn |-> n, sanMove |-> sanMove,
     bookMove |-> bookMove, posScore |-> posScore, isGameOver |-> isGameOver,
     engMove |-> engMove, engScore |-> engScore,
     complexityNumber |-> complexityNumber, moveChanges |-> moveChanges]

\* the state change of one call self.WriteNotation(...)
DoWriteNotation(sd, n, sanMove, bookMove, posScore, isGameOver, engMove, engScore, complexityNumber, moveChanges) ==
    LET r == WriteNotation(writeCnt, sd, n, sanMove, bookMove, posScore, isGameOver,
                           engMove, engScore, complexityNumber, moveChanges, engIdName)
    IN  /\ writeCnt' = r.writeCnt
        /\ lastUnit' = r.text
        /\ out' = AppendToFile(out, Appended(sd, n, r.text))
        /\ err' = r.err
        /\ lastCall' = Some(CallRecord(writeCnt, sd, n, sanMove, bookMove, posScore,
                                       isGameOver, engMove, engScore,
                                       complexityNumber, moveChanges))

----------------------------------------------------------------------------
(* WriteNotation called for the successive half-moves of one game *)

WriterScores == {-200, -100, -50, 0, 100, 200}
\* (complexityNumber, moveChanges) pairs on the branches of GetGoodNag
WriterComplexities == {<<0, 0>>, <<20, 2>>, <<30, 3>>, <<45, 4>>}

InitWriter ==
    /\ NagIdle
    /\ MateIdle
    /\ EngIdle
    /\ CxIdle
    /\ opt = DefaultOpt
    /\ engIdName \in EngineNames
    /\ writeCnt = 0
    /\ out = <<>>
    /\ lastUnit = <<>>
    /\ lastCall = None
    /\ err = "none"
    /\ pc = "writer"
    /\ gameCnt = 0
    /\ ply = 0
    /\ side \in BOOLEAN
    /\ fmvn = 1
    /\ isCereEnd = FALSE

WriterCall ==
    /\ pc = "writer"
    /\ ply < MaxCalls
    /\ \E bookMove \in {None} \cup {Some(m) : m \in BookMoves},
          posScore \in {None} \cup {Some(v) : v \in WriterScores},
          isGameOver \in BOOLEAN,
          eng \in {<<None, None>>}
                  \cup {<<Some(m), Some(v)>> : m \in EngineMoves(side), v \in WriterScores},
          cx \in WriterComplexities :
          DoWriteNotation(side, fmvn, PlayedMove(side), bookMove, posScore, isGameOver,
                          eng[1], eng[2], cx[1], cx[2])
    /\ pc' = IF err' = "none" THEN "written" ELSE "crashed"
    /\ UNCHANGED <<nagVars, mateVars, cxVars, jobVars, engVars, opt, engIdName, gameCnt, isCereEnd, ply, side, fmvn>>

\* the call has returned: on to the next half-move, unless the game is over
WriterReturn ==
    /\ pc = "written"
    /\ pc' = IF Val(lastCall).isGameOver THEN "over" ELSE "writer"
    /\ ply' = ply + 1
    /\ side' = ~side
    /\ fmvn' = IF side THEN fmvn ELSE fmvn + 1
    /\ lastCall' = None
    /\ lastUnit' = <<>>
    /\ UNCHANGED <<nagVars, mateVars, cxVars, jobVars, engVars, opt, engIdName, gameCnt, isCereEnd, writeCnt, out, err>>

NextWriter == WriterCall \/ WriterReturn

SpecWriter == InitWriter /\ [][NextWriter]_vars

----------------------------------------------------------------------------
(* AnnotatePgn: the games of the input file, half-move by half-move *)

\* the options main() lets through for a pgn input: -job analyze, and not both
\* -book none and -eval none
PgnOpts ==
    {o \in [book : {"none", "cerebellum"}, eval : {"none", "static", "search"},
            movetime : {1000, 2000}, enghash : {32}, engthreads : {1},
            movestart : {1, 31}, job : {"analyze"}] :
        ~(o.book = "none" /\ o.eval = "none")}

\* scores an engine reports, in centipawns: beyond WIN_SCORE, and on both sides of zero
RawScores == {-700, -600, 100}
\* full-move numbers a game starts at
StartFmvns == {30}

\* 'Brainfish' in engineIdName
IsBrainfish(idName) == \E i \in DOMAIN idName : idName[i] = "Brainfish"

\* "Convert score from the point of view of white": if not side, scoreCp = -1 * scoreCp
WhitePov(sd, scoreCp) == IF ~sd THEN -1 * scoreCp ELSE scoreCp

\* the engine's score of the position after the move, its sign not inverted
SearchScoreAfterMoveNoInvert(sd, scoreCp) == WhitePov(sd, scoreCp)

\* the score GetSearchScoreAfterMove returns for the engine's score of the position
\* after the move: its sign inverted, then converted to White's point of view
SearchScoreAfterMove(sd, scoreCp) == WhitePov(sd, -1 * scoreCp)

\* the score GetSearchScoreBeforeMove returns
SearchScoreBeforeMove(sd, scoreCp) == WhitePov(sd, scoreCp)

\* isGetComplexityNumber without its test of the move time
IsGetComplexityNumberAnyTime == opt.job = "analyze"

\* isGetComplexityNumber of GetSearchScoreAfterMove
IsGetComplexityNumber == opt.job = "analyze" /\ opt.movetime >= 2000

\* isCereEnd set by every probe that finds no move
CereEndAtAnyMiss(cereEnd, cereBookMove, n) == IF IsNone(cereBookMove) THEN TRUE ELSE cereEnd

\* "End trying to find cerebellum book move beyond BOOK_MOVE_LIMIT": isCereEnd after
\* a probe for move number n
CereEndAfter(cereEnd, cereBookMove, n) ==
    IF IsNone(cereBookMove) /\ n > BOOK_MOVE_LIMIT THEN TRUE ELSE cereEnd

\* abs(posScore)
Abs(x) == IF x < 0 THEN -x ELSE x

\* self.writeCnt carried over from the game before
WriteCntKept(cnt) == cnt

\* "Used for formatting the output": self.writeCnt = 0 at the top of the game loop
WriteCntAtGameStart(cnt) == 0

Init ==
    /\ NagIdle
    /\ MateIdle
    /\ EngIdle
    /\ CxIdle
    /\ opt \in PgnOpts
    /\ engIdName \in EngineNames
    /\ writeCnt = 0
    /\ out = <<>>
    /\ lastUnit = <<>>
    /\ lastCall = None
    /\ err = "none"
    /\ pc = "begin"
    /\ gameCnt = 0
    /\ ply = 0
    /\ side = TRUE
    /\ fmvn = 1
    /\ isCereEnd = FALSE

\* the book is disabled unless the engine is Brainfish; the first game is read
AnnotatePgnBegin ==
    /\ pc = "begin"
    /\ opt' = IF opt.book = "cerebellum" /\ ~IsBrainfish(engIdName)
              THEN [opt EXCEPT !.book = "none"] ELSE opt
    /\ pc' = "game"
    /\ UNCHANGED <<nagVars, mateVars, cxVars, jobVars, engVars, engIdName, writeCnt, out, lastUnit, lastCall, err, gameCnt,
                   ply, side, fmvn, isCereEnd>>

\* the top of "while game": counters, the tag section, the Annotator tag and the
\* comment on where the scores come from
StartGame ==
    /\ pc = "game"
    /\ gameCnt < MaxGames
    /\ gameCnt' = gameCnt + 1
    /\ writeCnt' = WriteCntAtGameStart(writeCnt)
    /\ isCereEnd' = FALSE
    /\ out' = AppendToFile(out, <<Tok("tags", gameCnt + 1, ""),
                                   Tok("annotator", 0, EngShortName(engIdName))>>
                                 \o (IF opt.eval \in {"static", "search"}
                                     THEN <<Tok("evalnote", 0, opt.eval)>> ELSE <<>>))
    /\ ply' = 0
    /\ side' \in BOOLEAN
    /\ fmvn' \in StartFmvns
    /\ pc' = "moves"
    /\ UNCHANGED <<nagVars, mateVars, cxVars, jobVars, engVars, opt, engIdName, lastUnit, lastCall, err>>

\* one pass of "while gameNode.variations", up to and including its WriteNotation call
AnnotateMove ==
    /\ pc = "moves"
    /\ ply < MaxPlies
    /\ LET sanMove == PlayedMove(side)
           belowStart == fmvn < opt.movestart
           probes == opt.book = "cerebellum" /\ ~isCereEnd
           searches == opt.eval = "search"
       IN  \E bookReply \in (IF probes THEN {None} \cup {Some(m) : m \in BookMoves}
                             ELSE {None}),
              evalReply \in RawScores,
              cx \in (IF searches /\ IsGetComplexityNumber
                      THEN {<<0, 0>>, <<45, 4>>} ELSE {<<0, 0>>}),
              engMoveReply \in EngineMoves(side),
              engScoreReply \in RawScores,
              isGameOver \in BOOLEAN :
           LET cereBookMove == bookReply
               cereEnd == IF probes THEN CereEndAfter(isCereEnd, cereBookMove, fmvn)
                          ELSE isCereEnd
               posScore == IF opt.eval = "static" THEN Some(evalReply)
                           ELSE IF searches THEN Some(SearchScoreAfterMove(side, evalReply))
                           ELSE None
           IN  /\ mv' = [NoMove EXCEPT !.probed = probes, !.cereBookMove = cereBookMove]
               /\ IF belowStart /\ opt.book # "cerebellum"
                  THEN /\ DoWriteNotation(side, fmvn, sanMove, None, None, FALSE, None, None, 0, 0)
                       /\ isCereEnd' = isCereEnd
                       /\ pc' = IF err' = "none" THEN "written" ELSE "crashed"
                  ELSE IF belowStart /\ ~IsNone(cereBookMove)
                  THEN /\ DoWriteNotation(side, fmvn, sanMove, cereBookMove, None, FALSE,
                                          None, None, 0, 0)
                       /\ isCereEnd' = cereEnd
                       /\ pc' = IF err' = "none" THEN "written" ELSE "crashed"
                  ELSE IF IsNone(posScore)
                  THEN \* abs(None): TypeError
                       /\ err' = "TypeError"
                       /\ pc' = "crashed"
                       /\ isCereEnd' = cereEnd
                       /\ UNCHANGED <<writeCnt, out, lastUnit, lastCall>>
                  ELSE LET asks == Abs(Val(posScore)) <= WIN_SCORE /\ opt.job = "analyze"
                           engBestMove == IF asks THEN Some(engMoveReply) ELSE None
                           engBestScore ==
                               IF asks THEN Some(SearchScoreBeforeMove(side, engScoreReply))
                               ELSE None
                       IN  /\ DoWriteNotation(side, fmvn, sanMove, cereBookMove, posScore,
                                              isGameOver, engBestMove, engBestScore,
                                              cx[1], cx[2])
                           /\ isCereEnd' = cereEnd
                           /\ pc' = IF err' = "none" THEN "written" ELSE "crashed"
    /\ UNCHANGED <<nagVars, mateVars, cxVars, jobVars, fileType, procs, sess, opt, engIdName,
                   gameCnt, ply, side, fmvn>>

\* "Read the next position": gameNode = nextNode; no move follows a mate or stalemate
NextMove ==
    /\ pc = "written"
    /\ pc' = IF Val(lastCall).isGameOver THEN "ended" ELSE "moves"
    /\ ply' = ply + 1
    /\ side' = ~side
    /\ fmvn' = IF side THEN fmvn ELSE fmvn + 1
    /\ lastCall' = None
    /\ lastUnit' = <<>>
    /\ mv' = NoMove
    /\ UNCHANGED <<nagVars, mateVars, cxVars, jobVars, fileType, procs, sess>>
    /\ UNCHANGED <<opt, engIdName, writeCnt, out, err, gameCnt, isCereEnd>>

\* the game has no further move: its result is written and the next game is read
EndGame ==
    /\ pc \in {"moves", "ended"}
    /\ out' = AppendToFile(out, <<Tok("result", gameCnt, "")>>)
    /\ pc' = "game"
    /\ UNCHANGED <<nagVars, mateVars, cxVars, jobVars, engVars, opt, engIdName, writeCnt, lastUnit, lastCall, err, gameCnt,
                   ply, side, fmvn, isCereEnd>>

\* read_game returned no game: the input is closed
Finish ==
    /\ pc = "game"
    /\ pc' = "done"
    /\ UNCHANGED <<nagVars, mateVars, cxVars, jobVars, engVars, opt, engIdName, writeCnt, out, lastUnit, lastCall, err,
                   gameCnt, ply, side, fmvn, isCereEnd>>

Next == AnnotatePgnBegin \/ StartGame \/ AnnotateMove \/ NextMove \/ EndGame \/ Finish

Spec == Init /\ [][Next]_vars

----------------------------------------------------------------------------
(* The engine: one process per request, driven over its stdin and stdout *)

RequestKinds ==
    {"Identify", "BookProbe", "StaticEval", "SearchBeforeMove", "SearchAfterMove",
     "EpdSearch", "EpdStaticEval"}
SearchKinds == {"SearchBeforeMove", "SearchAfterMove", "EpdSearch"}
EvalKinds == {"StaticEval", "EpdStaticEval"}

\* p.stdin.write(...): one command line
Cmd(c, name, str, num) == [c |-> c, name |-> name, str |-> str, num |-> num]
UciCmd == Cmd("uci", "", "", 0)
SetOption(name, num) == Cmd("setoption", name, "", num)
SetBookPath == Cmd("setoption", "BookPath", "Cerebellum_Light.bin", 0)
IsReadyCmd == Cmd("isready", "", "", 0)
UciNewGameCmd == Cmd("ucinewgame", "", "", 0)
PositionCmd(fen) == Cmd("position", "fen", fen, 0)
GoCmd(movetime) == Cmd("go", "movetime", "", movetime)
EvalCmd == Cmd("eval", "", "", 0)
QuitCmd == Cmd("quit", "", "", 0)

\* a session that sets no option
ConfigureCmdsBare(kind, o) == <<IsReadyCmd>>

\* what is written between the uciok loop and the readyok loop
ConfigureCmds(kind, o) ==
    IF kind = "BookProbe" THEN <<SetBookPath, SetOption("Threads", 1), IsReadyCmd>>
    ELSE IF kind \in SearchKinds
    THEN <<SetOption("Hash", o.enghash), SetOption("Threads", o.engthreads), IsReadyCmd>>
    ELSE <<IsReadyCmd>>

\* what is written between the readyok loop and the last loop
PositionCmds(kind, fen, o) ==
    <<UciNewGameCmd, PositionCmd(fen),
      IF kind = "BookProbe" THEN GoCmd(BOOK_SEARCH_TIME)
      ELSE IF kind \in SearchKinds THEN GoCmd(o.movetime)
      ELSE EvalCmd>>

\* one line read from p.stdout, by the substrings the parsers look for; t = "eof" is
\* readline returning '' at the end of the stream
Line(t, words, depth, sk, sv, pv, bound) ==
    [t |-> t, words |-> words, depth |-> depth, sk |-> sk, sv |-> sv, pv |-> pv,
     bound |-> bound]
EndOfStream == Line("eof", <<>>, 0, "", 0, "", FALSE)
OtherLine == Line("other", <<>>, 0, "", 0, "", FALSE)
UciokLine == Line("uciok", <<>>, 0, "", 0, "", FALSE)
ReadyokLine == Line("readyok", <<>>, 0, "", 0, "", FALSE)
\* 'id name <words>'
IdNameLine(words) == Line("idname", words, 0, "", 0, "", FALSE)
\* 'info depth <d> ... score <cp|mate> <n> [upperbound|lowerbound] ... pv <move> ...';
\* sk = "bad" is a score field whose number does not parse
InfoLine(depth, sk, sv, pv, bound) == Line("info", <<>>, depth, sk, sv, pv, bound)
\* 'bestmove <move>'
BestMoveLine(move) == Line("bestmove", <<>>, 0, "", 0, move, FALSE)
\* 'Total Evaluation: <v> (white side)', v in centipawns; sk = "bad" does not parse
EvalLine(sk, v) == Line("eval", <<>>, 0, sk, v, "", FALSE)

\* self.eng[0:-4] for the engine file 'engine.exe'
EngFileName == <<"engine">>

\* the replies tried: (depth, first pv move) of an info line, its score
PvSamples == {<<9, "e7e5">>, <<10, "g8f6">>, <<11, "e7e5">>}
MateReplies == {-1, 0, 2}
InfoScores ==
    {<<"cp", v>> : v \in RawScores} \cup {<<"mate", n>> : n \in MateReplies}
    \cup {<<"bad", 0>>}
\* lines with a score and a pv, with a bound as well, and without score and pv
InfoLines ==
    {InfoLine(p[1], sc[1], sc[2], p[2], FALSE) : p \in PvSamples, sc \in InfoScores}
    \cup {InfoLine(12, "cp", 100, "g8f6", TRUE), InfoLine(12, "none", 0, "", FALSE)}
\* the info lines tried for the search of an epd record, where no pv is looked at
EpdInfoLines ==
    {InfoLine(20, "cp", 30, "e7e5", FALSE), InfoLine(12, "mate", 2, "e7e5", FALSE),
     InfoLine(12, "bad", 0, "e7e5", FALSE), InfoLine(12, "none", 0, "", FALSE)}
\* the engine's bestmove in uci notation: the move played or another one
UciBestMoves(sd) == IF sd THEN {"e2e4", "g1f3"} ELSE {"e7e5", "g1f3"}
UciBookMoves == {"d2d4"}
EvalLines == {EvalLine("cp", v) : v \in RawScores} \cup {EvalLine("bad", 0)}

\* UciToSanMove for the moves above
UciToSanMove(uciMove) ==
    CASE uciMove = "e2e4" -> "e4"
      [] uciMove = "e7e5" -> "e5"
      [] uciMove = "g1f3" -> "Nf3"
      [] uciMove = "g8f6" -> "Nf6"
      [] uciMove = "d2d4" -> "d4"

UciLines(kind) ==
    {UciokLine, OtherLine}
    \cup (IF kind = "Identify" THEN {IdNameLine(n) : n \in EngineNames} ELSE {})
ReadyLines == {ReadyokLine, OtherLine}
GoLines(kind, sd) ==
    IF kind = "BookProbe"
    THEN {InfoLine(10, "cp", 100, "e7e5", FALSE), OtherLine}
         \cup {BestMoveLine(m) : m \in UciBookMoves}
    ELSE IF kind \in EvalKinds THEN EvalLines \cup {OtherLine}
    ELSE (IF kind = "EpdSearch" THEN EpdInfoLines ELSE InfoLines)
         \cup {OtherLine} \cup {BestMoveLine(m) : m \in UciBestMoves(sd)}

Returned(s, v) == [s EXCEPT !.phase = "returned", !.ret = Some(v)]
Raise(s, e) == [s EXCEPT !.phase = "raised", !.exc = e]

\* Popen and the first write
OpenSession(kind, sd, fen) ==
    [NoSession EXCEPT !.kind = kind, !.phase = "uciok", !.side = sd, !.fen = fen,
                      !.sent = <<UciCmd>>]

\* p.stdin.write of several lines in a row, then on to the next read loop; a write
\* to a pipe whose other end is gone raises IOError
Write(s, cmds, phase) ==
    IF s.broken THEN Raise(s, "IOError")
    ELSE [s EXCEPT !.sent = @ \o cmds, !.phase = phase, !.nlines = 0]

\* readline returned '': the loop ends; the engine may or may not still read its stdin
AtEndOfStream(s, broken) == [s EXCEPT !.eof = TRUE, !.broken = broken]

\* GetComplexityNumber: lastDepth and lastMove are first assigned at the end of the
\* first pass of the loop
RECURSIVE ComplexityFrom(_, _, _, _)
ComplexityFrom(savedMove, i, acc, last) ==
    IF i > Len(savedMove) THEN acc
    ELSE LET depth == savedMove[i][1]
             move == savedMove[i][2]
         IN  IF depth >= 10 /\ IsNone(last)
             THEN [acc EXCEPT !.exc = "UnboundLocalError"]
             ELSE LET changed == /\ depth >= 10
                                 /\ move # Val(last)[2]
                                 /\ depth # Val(last)[1]
                      acc2 == IF changed
                              THEN [acc EXCEPT !.complexityNumber = @ + depth,
                                               !.moveChanges = @ + 1]
                              ELSE acc
                  IN  ComplexityFrom(savedMove, i + 1, acc2, Some(<<depth, move>>))

\* the scan with "complexityNumber += 1" in the place of "complexityNumber += n[0]"
GetComplexityNumberCountOnly(savedMove) ==
    LET r == ComplexityFrom(savedMove, 1,
                            [complexityNumber |-> 0, moveChanges |-> 0, exc |-> ""], None)
    IN  [r EXCEPT !.complexityNumber = r.moveChanges]

\* the scan as it would run if savedMove held the samples of depth 10 and more only
GetComplexityNumberDeepOnly(savedMove) ==
    ComplexityFrom(SelectSeq(savedMove, LAMBDA n : n[1] >= 10), 1,
                   [complexityNumber |-> 0, moveChanges |-> 0, exc |-> ""], None)

GetComplexityNumber(savedMove) ==
    ComplexityFrom(savedMove, 1, [complexityNumber |-> 0, moveChanges |-> 0, exc |-> ""],
                   None)

(* GetComplexityNumber on its own: every savedMove list of up to MaxTrace samples *)
TraceDepths == {9, 10, 11}
TraceMoves == {"e7e5", "g8f6"}
TraceSamples == TraceDepths \X TraceMoves
Traces == UNION {[1..n -> TraceSamples] : n \in 0..MaxTrace}

InitComplexity ==
    /\ cxCall \in Traces
    /\ cxResult = <<>>
    /\ heard = <<>>
    /\ NagIdle
    /\ RunIdle
    /\ MateIdle
    /\ EngIdle

CallGetComplexityNumber ==
    /\ cxResult = <<>>
    /\ cxResult' = Some(GetComplexityNumber(cxCall))
    /\ UNCHANGED <<cxCall, heard, mateVars, jobVars, nagVars, runVars, engVars>>

NextComplexity == CallGetComplexityNumber

SpecComplexity == InitComplexity /\ [][NextComplexity]_vars

\* one pass of the uciok loop
OnUciLine(s, line) ==
    IF line.t = "idname" /\ s.kind = "Identify" THEN [s EXCEPT !.idName = Some(line.words)]
    ELSE s

\* the score fields read from the lines without upperbound or lowerbound only
ParseScoreNoBounds(s, line) ==
    IF line.t # "info" \/ line.bound THEN s
    ELSE IF line.sk = "cp" THEN [s EXCEPT !.scoreCp = line.sv, !.scoreKind = "cp"]
    ELSE IF line.sk = "mate"
    THEN [s EXCEPT !.scoreCp = MateDistanceToValue(line.sv), !.scoreKind = "mate"]
    ELSE IF line.sk = "bad" THEN Raise(s, "ValueError")
    ELSE s

\* the score fields of a line of a search: 'score cp ' and 'score mate '
ParseScore(s, line) ==
    IF line.t # "info" THEN s
    ELSE IF line.sk = "cp" THEN [s EXCEPT !.scoreCp = line.sv, !.scoreKind = "cp"]
    ELSE IF line.sk = "mate"
    THEN [s EXCEPT !.scoreCp = MateDistanceToValue(line.sv), !.scoreKind = "mate"]
    ELSE IF line.sk = "bad" THEN Raise(s, "ValueError")
    ELSE s

\* "Save pv move per depth"
SavePvMove(s, line) ==
    IF /\ s.kind = "SearchAfterMove"
       /\ IsGetComplexityNumber
       /\ line.t = "info"
       /\ line.pv # ""
       /\ ~line.bound
    THEN [s EXCEPT !.savedMove = Append(@, <<line.depth, line.pv>>)]
    ELSE s

\* one pass of the last loop of a request, for a line that is not the end of the stream
OnGoLine(s0, line) ==
    LET s == IF line.t \in {"info", "other"} THEN [s0 EXCEPT !.nlines = @ + 1] ELSE s0
    IN  IF s.kind = "BookProbe"
        THEN LET s1 == IF line.t = "info"
                       THEN [s EXCEPT !.isInfoDepth = TRUE, !.sawInfoDepth = TRUE] ELSE s
             IN  IF line.t = "bestmove"
                 THEN [s1 EXCEPT !.bestMove = Some(line.pv), !.phase = "close"]
                 ELSE s1
        ELSE IF s.kind \in EvalKinds
        THEN IF line.t # "eval" THEN s
             ELSE IF line.sk = "bad" THEN Raise(s, "ValueError")
             ELSE [s EXCEPT !.scoreCp = line.sv, !.phase = "close"]
        ELSE LET s1 == ParseScore(SavePvMove(s, line), line)
                 s2 == IF s.kind = "EpdSearch" /\ line.t = "info"
                       THEN [s1 EXCEPT !.depthSearched = line.depth] ELSE s1
             IN  IF s1.phase = "raised" THEN s1
                 ELSE IF line.t # "bestmove" THEN s2
                 ELSE IF s.kind = "SearchAfterMove" THEN [s2 EXCEPT !.phase = "close"]
                 ELSE [s2 EXCEPT !.bestMove = Some(line.pv), !.phase = "close"]

\* a probe that takes the bestmove for a book move whatever else was received
BookMoveAlways(s) ==
    IF IsNone(s.bestMove) THEN Raise(s, "UnboundLocalError")
    ELSE Returned(s, Some(UciToSanMove(Val(s.bestMove))))

\* "If we did not get info depth from the engine then the bestmove is from the book"
BookMoveOrNone(s) ==
    IF s.isInfoDepth THEN Returned(s, None)
    ELSE IF IsNone(s.bestMove) THEN Raise(s, "UnboundLocalError")
    ELSE Returned(s, Some(UciToSanMove(Val(s.bestMove))))

\* the move time in milliseconds where the seconds are due
AcsMillis(movetime) == movetime

\* self.moveTimeOpt/1000 of GetEpdEngineSearchScore, a division of integers
Acs(movetime) == movetime \div 1000

\* what follows p.communicate() in each request
AfterCommunicate(s) ==
    CASE s.kind = "Identify" ->
            Returned(s, IF IsNone(s.idName) THEN EngFileName ELSE Val(s.idName))
      [] s.kind = "BookProbe" -> BookMoveOrNone(s)
      [] s.kind = "StaticEval" ->
            IF s.scoreCp = TEST_SEARCH_SCORE THEN Raise(s, "AssertionError")
            ELSE Returned(s, s.scoreCp)
      [] s.kind = "SearchBeforeMove" ->
            IF s.scoreCp = TEST_SEARCH_SCORE THEN Raise(s, "AssertionError")
            ELSE IF IsNone(s.bestMove) THEN Raise(s, "UnboundLocalError")
            ELSE Returned(s, <<UciToSanMove(Val(s.bestMove)),
                               SearchScoreBeforeMove(s.side, s.scoreCp)>>)
      [] s.kind = "SearchAfterMove" ->
            IF s.scoreCp = TEST_SEARCH_SCORE THEN Raise(s, "AssertionError")
            ELSE LET c == IF IsGetComplexityNumber THEN GetComplexityNumber(s.savedMove)
                          ELSE [complexityNumber |-> 0, moveChanges |-> 0, exc |-> ""]
                 IN  IF c.exc # "" THEN Raise(s, c.exc)
                     ELSE Returned(s, <<SearchScoreAfterMove(s.side, s.scoreCp),
                                        c.complexityNumber, c.moveChanges>>)
      [] s.kind = "EpdSearch" ->
            IF IsNone(s.bestMove) THEN Raise(s, "TypeError")
            ELSE IF s.depthSearched = TEST_SEARCH_DEPTH \/ s.scoreCp = TEST_SEARCH_SCORE
            THEN Raise(s, "AssertionError")
            ELSE Returned(s, <<s.depthSearched, Acs(opt.movetime),
                               UciToSanMove(Val(s.bestMove)), s.scoreCp>>)
      [] s.kind = "EpdStaticEval" ->
            IF s.scoreCp = TEST_SEARCH_SCORE THEN Raise(s, "AssertionError")
            ELSE Returned(s, IF ~s.side THEN -1 * s.scoreCp ELSE s.scoreCp)

\* an exception nobody catches ends the run
SessionStep(s) ==
    /\ sess' = s
    /\ err' = IF s.phase = "raised" THEN s.exc ELSE err
    /\ pc' = IF s.phase = "raised" THEN "crashed" ELSE pc

sessFrame == <<nagVars, mateVars, cxVars, jobVars, fileType, mv, opt, engIdName, writeCnt, out, lastUnit,
               lastCall, gameCnt, ply, side, fmvn, isCereEnd>>

\* subprocess.Popen(self.eng, ...) and p.stdin.write("uci\n")
Spawn(kind, sd, fen) ==
    /\ Len(procs) < MaxRequests
    /\ procs' = Append(procs, "alive")
    /\ sess' = OpenSession(kind, sd, fen)

\* "for eline in iter(p.stdout.readline, '')" until uciok, and the writes after it
ReadUciok ==
    /\ sess.phase = "uciok"
    /\ \E line \in (IF sess.eof THEN {} ELSE UciLines(sess.kind)) \cup {EndOfStream},
          broken \in BOOLEAN :
          /\ (line.t # "eof" \/ sess.eof) => broken = sess.broken
          /\ LET s1 == IF line.t = "eof" THEN AtEndOfStream(sess, broken)
                       ELSE OnUciLine(sess, line)
             IN  SessionStep(IF line.t \notin {"uciok", "eof"} THEN s1
                             ELSE IF sess.kind = "Identify" THEN [s1 EXCEPT !.phase = "close"]
                             ELSE Write(s1, ConfigureCmds(sess.kind, opt), "readyok"))
    /\ UNCHANGED <<sessFrame, procs>>

\* the loop until readyok, and the writes after it
ReadReadyok ==
    /\ sess.phase = "readyok"
    /\ \E line \in (IF sess.eof THEN {} ELSE ReadyLines) \cup {EndOfStream},
          broken \in BOOLEAN :
          /\ (line.t # "eof" \/ sess.eof) => broken = sess.broken
          /\ LET s1 == IF line.t = "eof" THEN AtEndOfStream(sess, broken) ELSE sess
             IN  SessionStep(IF line.t \notin {"readyok", "eof"} THEN s1
                             ELSE Write(s1, PositionCmds(sess.kind, sess.fen, opt), "go"))
    /\ UNCHANGED <<sessFrame, procs>>

\* a loop "while True: readline()" that reads on after the end of the stream
ReadOnAtEndOfStream(s, broken) == AtEndOfStream(s, broken)

\* "for eline in iter(p.stdout.readline, '')": the last loop of a request is left when
\* readline returns '', and the request goes on to quit the engine
LeaveAtEndOfStream(s, broken) == [AtEndOfStream(s, broken) EXCEPT !.phase = "close"]

\* one pass of the loop that parses the replies to go or eval
ReadGo ==
    /\ sess.phase = "go"
    /\ \E line \in (IF sess.eof THEN {} ELSE GoLines(sess.kind, sess.side))
                    \cup {EndOfStream},
          broken \in BOOLEAN :
          /\ (line.t # "eof" \/ sess.eof) => broken = sess.broken
          /\ line.t \in {"info", "other"} => sess.nlines < MaxLines
          /\ SessionStep(IF line.t = "eof" THEN LeaveAtEndOfStream(sess, broken)
                         ELSE OnGoLine(sess, line))
    /\ UNCHANGED <<sessFrame, procs>>

(* One search on its own, GetSearchScoreBeforeMove, GetSearchScoreAfterMove or *)
(* GetEpdEngineSearchScore, with the lines of its last loop kept               *)
SearchOpts == {o \in PgnOpts : o.book = "none" /\ o.eval = "search" /\ o.movestart = 1}

InitSearch ==
    /\ NagIdle
    /\ MateIdle
    /\ CxIdle
    /\ JobIdle
    /\ opt \in SearchOpts
    /\ engIdName = <<"Stockfish", "8">>
    /\ writeCnt = 0
    /\ out = <<>>
    /\ lastUnit = <<>>
    /\ lastCall = None
    /\ err = "none"
    /\ pc = "search"
    /\ gameCnt = 1
    /\ ply = 0
    /\ side \in BOOLEAN
    /\ fmvn = 30
    /\ isCereEnd = FALSE
    /\ fileType = "pgn"
    /\ mv = NoMove
    /\ procs = <<"alive">>
    /\ \E kind \in SearchKinds : sess = OpenSession(kind, side, "fen")

\* one pass of the loop that parses the replies to go, the line kept
HearGo ==
    /\ pc = "search"
    /\ sess.phase = "go"
    /\ \E line \in (IF sess.eof THEN {} ELSE GoLines(sess.kind, sess.side))
                    \cup {EndOfStream},
          broken \in BOOLEAN :
          /\ (line.t # "eof" \/ sess.eof) => broken = sess.broken
          /\ line.t \in {"info", "other"} => sess.nlines < MaxHeard
          /\ SessionStep(IF line.t = "eof" THEN LeaveAtEndOfStream(sess, broken)
                         ELSE OnGoLine(sess, line))
          /\ heard' = Append(heard, line)
    /\ UNCHANGED <<nagVars, mateVars, cxCall, cxResult, jobVars, fileType, mv, opt, engIdName,
                   writeCnt, out, lastUnit, lastCall, gameCnt, ply, side, fmvn, isCereEnd, procs>>

\* p.communicate() skipped: the process is left as it is
CommunicateSkipped(state) == state
\* p.communicate(): returns when the process has exited
Communicate(state) == "exited"

\* "Quit the engine": p.stdin.write('quit\n'), p.communicate(), and the rest of the
\* request up to its return
Close ==
    /\ sess.phase = "close"
    /\ IF sess.broken
       THEN /\ SessionStep(Raise(sess, "IOError"))
            /\ procs' = procs
       ELSE /\ SessionStep(AfterCommunicate([sess EXCEPT !.sent = Append(@, QuitCmd)]))
            /\ procs' = [procs EXCEPT ![Len(procs)] = Communicate(@)]
    /\ UNCHANGED sessFrame

NextSearch == ReadUciok \/ ReadReadyok \/ HearGo \/ Close

SpecSearch == InitSearch /\ [][NextSearch]_vars

----------------------------------------------------------------------------
(* A whole run: main, the constructor, then AnnotatePgn or AnnotateEpd, with every *)
(* engine request driven line by line                                             *)

\* the options main() lets through for an epd input that is annotated
EpdOpts ==
    [book : {"none"}, eval : {"static", "search"}, movetime : {2500}, enghash : {32},
     engthreads : {1}, movestart : {8}, job : {"analyze"}]

\* and for an epd input the engine is tested with
TestOpts ==
    [book : {"none"}, eval : {"none"}, movetime : {2500}, enghash : {32},
     engthreads : {1}, movestart : {8}, job : {"test"}]

\* the pgn options tried: the longer move time with -eval search only
RunPgnOpts == {o \in PgnOpts : o.movetime = 2000 <=> o.eval = "search"}

\* options main() turns down for a pgn input, and for an epd input
BadPgnOpts ==
    {o \in [book : {"none"}, eval : {"none", "static"}, movetime : {0}, enghash : {32},
            engthreads : {1}, movestart : {8}, job : {"analyze", "test", "none"}] :
        o.eval = "none" \/ o.job # "analyze"}
BadEpdOpts ==
    {o \in [book : {"none"}, eval : {"none", "static"}, movetime : {0, 2500},
            enghash : {32}, engthreads : {1}, movestart : {8}, job : {"analyze", "test"}] :
        o.movetime = 0 \/ (o.eval = "none" /\ o.job = "analyze")}

\* the command lines tried in a directory without Cerebellum_Light.bin
BookFileMissingOpts ==
    {o \in RunPgnOpts : o.book = "cerebellum" /\ o.eval # "search" /\ o.movestart = 1}

\* the files of the command line as main() finds them
Cfgs ==
    [infile : BOOLEAN, sameName : BOOLEAN, engfile : BOOLEAN, ext : {"pgn", "epd", "txt"},
     cereBookFile : BOOLEAN]

\* the command lines tried for an input file with extension ext
CmdOpts(ext) ==
    IF ext = "pgn" THEN RunPgnOpts \cup BadPgnOpts
    ELSE IF ext = "epd" THEN EpdOpts \cup TestOpts \cup BadEpdOpts
    ELSE BadPgnOpts \cup BadEpdOpts

\* what an earlier run left in the output file
StaleOutput == <<Tok("stale", 0, "")>>

InitRun ==
    /\ NagIdle
    /\ MateIdle
    /\ CxIdle
    /\ cfg \in Cfgs
    /\ opt \in CmdOpts(cfg.ext)
    /\ ~cfg.cereBookFile => opt \in BookFileMissingOpts
    /\ test = NoTest
    /\ fileType = ""
    /\ engIdName = <<>>
    /\ writeCnt = 0
    /\ out \in {<<>>, StaleOutput}
    /\ lastUnit = <<>>
    /\ lastCall = None
    /\ err = "none"
    /\ pc = "start"
    /\ gameCnt = 0
    /\ ply = 0
    /\ side = TRUE
    /\ fmvn = 1
    /\ isCereEnd = FALSE
    /\ procs = <<>>
    /\ sess = NoSession
    /\ mv = NoMove

\* CheckFiles: one of its four tests ends the program
CheckFilesFails(c) == ~c.infile \/ c.sameName \/ ~c.engfile \/ c.ext \notin {"epd", "pgn"}

\* "Disable use of cerebellum book when Cerebellum_Light.bin is missing."
BookOption(c, o) == IF o.book = "cerebellum" /\ ~c.cereBookFile THEN "none" ELSE o.book

\* main with no test of the options, only CheckFiles
ConfigurationErrorFilesOnly(c, o) == CheckFilesFails(c)

\* main calls sys.exit(1) before DeleteFile
ConfigurationError(c, o) ==
    \/ CheckFilesFails(c)
    \/ BookOption(c, o) = "none" /\ o.eval = "none" /\ c.ext = "pgn"
    \/ c.ext = "epd" /\ o.movetime <= 0
    \/ c.ext = "epd" /\ o.eval = "none" /\ o.job # "test"
    \/ c.ext = "pgn" /\ o.job # "analyze"

\* main, from CheckFiles to the last sys.exit(1)
Validate ==
    /\ pc = "start"
    /\ IF ConfigurationError(cfg, opt)
       THEN /\ pc' = "exited"
            /\ err' = "SystemExit"
            /\ UNCHANGED <<opt, fileType>>
       ELSE /\ pc' = "main"
            /\ err' = err
            /\ opt' = [opt EXCEPT !.book = BookOption(cfg, opt)]
            /\ fileType' = cfg.ext
    /\ UNCHANGED <<nagVars, mateVars, cxVars, jobVars, procs, sess, mv, engIdName, writeCnt, out,
                   lastUnit, lastCall, gameCnt, ply, side, fmvn, isCereEnd>>

\* main: DeleteFile(outputFile), then Analyze(...) up to the call of GetEngineIdName
Main ==
    /\ pc = "main"
    /\ out' = <<>>
    /\ writeCnt' = 0
    /\ Spawn("Identify", TRUE, "")
    /\ pc' = "init"
    /\ UNCHANGED <<nagVars, mateVars, cxVars, jobVars, fileType, mv, opt, engIdName, lastUnit, lastCall, err,
                   gameCnt, ply, side, fmvn, isCereEnd>>

\* self.engIdName = self.GetEngineIdName(), and main's choice of the job
Constructed ==
    /\ pc = "init"
    /\ sess.phase = "returned"
    /\ engIdName' = Val(sess.ret)
    /\ sess' = NoSession
    /\ pc' = IF fileType = "pgn" THEN "begin" ELSE IF opt.job = "test" THEN "test" ELSE "epd"
    /\ UNCHANGED <<nagVars, mateVars, cxVars, jobVars, fileType, procs, mv, opt, writeCnt, out, lastUnit,
                   lastCall, err, gameCnt, ply, side, fmvn, isCereEnd>>

\* the end of a pass of the move loop that wrote its unit
Wrote == pc' = IF err' = "none" THEN "written" ELSE "crashed"

\* step (3) of the move loop, and step (4) when there is nothing to evaluate
GetPosScore(m) ==
    /\ mv' = m
    /\ UNCHANGED <<writeCnt, out, lastUnit, lastCall>>
    /\ IF opt.eval = "static"
       THEN Spawn("StaticEval", side, "fenAfterMove") /\ pc' = "eval" /\ err' = err
       ELSE IF opt.eval = "search"
       THEN Spawn("SearchAfterMove", side, "fenAfterMove") /\ pc' = "eval" /\ err' = err
       ELSE \* abs(None)
            /\ err' = "TypeError"
            /\ pc' = "crashed"
            /\ sess' = NoSession
            /\ procs' = procs

\* steps (0) and (1) of the move loop
MoveStart ==
    /\ pc = "moves"
    /\ ply < MaxPlies
    /\ IF fmvn < opt.movestart /\ opt.book # "cerebellum"
       THEN /\ DoWriteNotation(side, fmvn, PlayedMove(side), None, None, FALSE, None, None, 0, 0)
            /\ Wrote
            /\ UNCHANGED <<procs, sess, mv>>
       ELSE IF opt.book = "cerebellum" /\ ~isCereEnd
       THEN /\ Spawn("BookProbe", side, "fenBeforeMove")
            /\ pc' = "probe"
            /\ mv' = [NoMove EXCEPT !.probed = TRUE]
            /\ UNCHANGED <<err, writeCnt, out, lastUnit, lastCall>>
       ELSE GetPosScore(NoMove)
    /\ UNCHANGED <<nagVars, mateVars, cxVars, jobVars, fileType, opt, engIdName, gameCnt, ply, side, fmvn,
                   isCereEnd>>

\* GetCerebellumBookMove returned: the rest of step (1), and step (2)
ProbeReturn ==
    /\ pc = "probe"
    /\ sess.phase = "returned"
    /\ LET cereBookMove == Val(sess.ret)
       IN  /\ isCereEnd' = CereEndAfter(isCereEnd, cereBookMove, fmvn)
           /\ IF fmvn < opt.movestart /\ ~IsNone(cereBookMove)
              THEN /\ DoWriteNotation(side, fmvn, PlayedMove(side), cereBookMove, None, FALSE,
                                      None, None, 0, 0)
                   /\ Wrote
                   /\ sess' = NoSession
                   /\ UNCHANGED <<procs, mv>>
              ELSE GetPosScore([mv EXCEPT !.cereBookMove = cereBookMove])
    /\ UNCHANGED <<nagVars, mateVars, cxVars, jobVars, fileType, opt, engIdName, gameCnt, ply, side, fmvn>>

\* steps (5) and (6) of the move loop
WriteMove(m) ==
    \E isGameOver \in BOOLEAN :
        /\ DoWriteNotation(side, fmvn, PlayedMove(side), m.cereBookMove, m.posScore,
                           isGameOver, m.engBestMove, m.engBestScore,
                           m.complexityNumber, m.moveChanges)
        /\ Wrote
        /\ mv' = m
        /\ sess' = NoSession
        /\ procs' = procs

\* GetStaticEvalAfterMove or GetSearchScoreAfterMove returned: the rest of step (3),
\* and step (4)
EvalReturn ==
    /\ pc = "eval"
    /\ sess.phase = "returned"
    /\ LET r == Val(sess.ret)
           m == IF sess.kind = "StaticEval"
                THEN [mv EXCEPT !.posScore = Some(r), !.rawPos = Some(sess.scoreCp),
                                !.rawKind = "eval"]
                ELSE [mv EXCEPT !.posScore = Some(r[1]), !.complexityNumber = r[2],
                                !.moveChanges = r[3], !.rawPos = Some(sess.scoreCp),
                                !.rawKind = sess.scoreKind]
       IN  IF Abs(Val(m.posScore)) <= WIN_SCORE /\ opt.job = "analyze"
           THEN /\ Spawn("SearchBeforeMove", side, "fenBeforeMove")
                /\ pc' = "best"
                /\ mv' = m
                /\ UNCHANGED <<err, writeCnt, out, lastUnit, lastCall>>
           ELSE WriteMove(m)
    /\ UNCHANGED <<nagVars, mateVars, cxVars, jobVars, fileType, opt, engIdName, gameCnt, ply, side, fmvn,
                   isCereEnd>>

\* GetSearchScoreBeforeMove returned: the rest of step (4)
BestReturn ==
    /\ pc = "best"
    /\ sess.phase = "returned"
    /\ LET r == Val(sess.ret)
       IN  WriteMove([mv EXCEPT !.engBestMove = Some(r[1]), !.engBestScore = Some(r[2]),
                                !.rawEng = Some(sess.scoreCp)])
    /\ UNCHANGED <<nagVars, mateVars, cxVars, jobVars, fileType, opt, engIdName, gameCnt, ply, side, fmvn,
                   isCereEnd>>

\* the words of self.engIdName inside Ae "..."
AeToks(idName) == [i \in DOMAIN idName |-> Tok("Ae", i, idName[i])]

\* the line AnnotateEpd appends for a record
EpdLine(evalOpt, r, idName) ==
    IF evalOpt = "static"
    THEN <<Tok("ce", r, ""), Tok("c0", 0, "ce is static eval of engine")>> \o AeToks(idName)
    ELSE <<Tok("acd", r[1], ""), Tok("acs", r[2], ""), Tok("bm", 0, r[3]),
           Tok("ce", r[4], "")>> \o AeToks(idName)

\* an epd record as read from the input: the position is mate or stalemate, the
\* line holds 'bm ', the moves after bm, the side to move, and the engine's move
\* once it is back
EpdRec(isGameOver, hasBm, epdBm, sd) ==
    [isGameOver |-> isGameOver, hasBm |-> hasBm, epdBm |-> epdBm, side |-> sd, bm |-> None]

\* a loop over the records that has no "continue" for a position without a legal move
SkipsNoRecord(isGameOver) == FALSE

\* "If this position has no legal move then we skip it."
SkipsRecord(isGameOver) == isGameOver

\* AnnotateEpd: the next line of the input, up to the call of the engine
EpdRecord ==
    /\ pc = "epd"
    /\ ply < MaxRecords
    /\ ply' = ply + 1
    /\ lastUnit' = <<>>
    /\ \E isGameOver \in BOOLEAN, sd \in BOOLEAN :
          /\ side' = sd
          /\ test' = [test EXCEPT !.records = Append(@, EpdRec(isGameOver, FALSE, <<>>, sd))]
          /\ IF SkipsRecord(isGameOver)
             THEN sess' = NoSession /\ UNCHANGED <<procs, pc>>
             ELSE /\ Spawn(IF opt.eval = "static" THEN "EpdStaticEval" ELSE "EpdSearch",
                           sd, "epd")
                  /\ pc' = "epdeval"
    /\ UNCHANGED <<nagVars, mateVars, cxVars, cfg, fileType, mv, opt, engIdName, writeCnt, out,
                   lastCall, err, gameCnt, fmvn, isCereEnd>>

\* the engine's analysis is back: "Save to output file the epd analysis"
EpdReturn ==
    /\ pc = "epdeval"
    /\ sess.phase = "returned"
    /\ lastUnit' = EpdLine(opt.eval, Val(sess.ret), engIdName)
    /\ out' = AppendToFile(out, <<Tok("epd", ply, SideName(side))>>)
    /\ sess' = [sess EXCEPT !.phase = "used"]
    /\ pc' = "epd"
    /\ UNCHANGED <<nagVars, mateVars, cxVars, jobVars, fileType, procs, mv, opt, engIdName, writeCnt, lastCall,
                   err, gameCnt, ply, side, fmvn, isCereEnd>>

\* the input file has no further line
EpdFinish ==
    /\ pc = "epd"
    /\ pc' = "done"
    /\ UNCHANGED <<nagVars, mateVars, cxVars, jobVars, engVars, opt, engIdName, writeCnt, out, lastUnit,
                   lastCall, err, gameCnt, ply, side, fmvn, isCereEnd>>

\* the lists of moves after bm in the records tried
EpdBms == {<<"e5", "e6">>, <<"Nf3", "e5">>}

\* a comparison with the first move of the list only
IsCorrectFirstBm(engineBm, epdBm) == epdBm # <<>> /\ engineBm = epdBm[1]

\* IsCorrectEngineBm
IsCorrectEngineBm(engineBm, epdBm) == \E i \in DOMAIN epdBm : engineBm = epdBm[i]

\* TestEngineWithEpd: the next line of the input, up to the call of the engine
TestRecord ==
    /\ pc = "test"
    /\ ply < MaxRecords
    /\ ply' = ply + 1
    /\ \E isGameOver \in BOOLEAN, hasBm \in BOOLEAN, epdBm \in EpdBms, sd \in {FALSE} :
          /\ hasBm \/ epdBm = <<"e5", "e6">>
          /\ side' = sd
          /\ test' = [test EXCEPT !.records =
                          Append(@, EpdRec(isGameOver, hasBm, IF hasBm THEN epdBm ELSE <<>>, sd))]
          /\ IF SkipsRecord(isGameOver) \/ ~hasBm
             THEN sess' = NoSession /\ UNCHANGED <<procs, pc>>
             ELSE /\ Spawn("EpdSearch", sd, "epd")
                  /\ pc' = "testeval"
    /\ UNCHANGED <<nagVars, mateVars, cxVars, cfg, fileType, mv, opt, engIdName, writeCnt, out,
                   lastUnit, lastCall, err, gameCnt, fmvn, isCereEnd>>

\* GetEpdEngineSearchScore returned: the counters
TestReturn ==
    /\ pc = "testeval"
    /\ sess.phase = "returned"
    /\ LET bm == Val(sess.ret)[3]
           epdBm == test.records[ply].epdBm
       IN  test' = [test EXCEPT !.cntValidEpd = @ + 1,
                                !.cntCorrect = IF IsCorrectEngineBm(bm, epdBm) THEN @ + 1 ELSE @,
                                !.records[ply].bm = Some(bm)]
    /\ sess' = [sess EXCEPT !.phase = "used"]
    /\ pc' = "test"
    /\ UNCHANGED <<nagVars, mateVars, cxVars, cfg, fileType, procs, mv, opt, engIdName, writeCnt,
                   out, lastUnit, lastCall, err, gameCnt, ply, side, fmvn, isCereEnd>>

\* '%0.1f' %(pctCorrect), in tenths of a percent
PctCorrect(cntCorrect, cntValidEpd) ==
    IF cntValidEpd = 0 THEN 0 ELSE (2000 * cntCorrect + cntValidEpd) \div (2 * cntValidEpd)

\* the summary TestEngineWithEpd appends to the output file
TestSummary(cntEpd, t, idName) ==
    <<Tok("total", cntEpd, ""), Tok("tested", t.cntValidEpd, ""),
      Tok("correct", t.cntCorrect, ""),
      Tok("pct", PctCorrect(t.cntCorrect, t.cntValidEpd), "")>> \o AeToks(idName)

\* the input file has no further line: "Print test summary."
TestFinish ==
    /\ pc = "test"
    /\ lastUnit' = TestSummary(ply, test, engIdName)
    /\ out' = AppendToFile(out, <<Tok("summary", ply, "")>>)
    /\ pc' = "done"
    /\ UNCHANGED <<nagVars, mateVars, cxVars, jobVars, engVars, opt, engIdName, writeCnt, lastCall,
                   err, gameCnt, ply, side, fmvn, isCereEnd>>

NextRun ==
    \/ Validate \/ Main \/ Constructed
    \/ ReadUciok \/ ReadReadyok \/ ReadGo \/ Close
    \/ AnnotatePgnBegin \/ StartGame \/ MoveStart \/ ProbeReturn \/ EvalReturn \/ BestReturn
    \/ NextMove \/ EndGame \/ Finish
    \/ EpdRecord \/ EpdReturn \/ EpdFinish
    \/ TestRecord \/ TestReturn \/ TestFinish

SpecRun == InitRun /\ [][NextRun]_vars

\* a read loop is left: its terminal token, the end of the stream, or an exception
LoopEnds == (ReadUciok \/ ReadReadyok \/ ReadGo) /\ sess'.phase # sess.phase

\* the run of a program that is never suspended: a step it can take is taken
SpecRunFair == SpecRun /\ WF_vars(NextRun)

----------------------------------------------------------------------------
(* Claims about the classifiers, under SpecNag *)

BadNagReturned == nagCall.fn = "GetBadNag" /\ nagResult # ""
GoodNagReturned == nagCall.fn = "GetGoodNag" /\ nagResult # ""
\* the scores of the call in the point of view of the side to move
CallPosScore == SidePov(nagCall.side, nagCall.posScore)
CallEngScore == SidePov(nagCall.side, nagCall.engScore)

C3_GoodNagTable ==
    GoodNagReturned =>
        LET p == CallPosScore
            e == CallEngScore
            c == nagCall.complexityNumber
            m == nagCall.moveChanges
        IN  /\ nagResult =
                   IF p > e /\ m >= 4 /\ c >= 45 /\ 75 <= p /\ p <= 300 THEN NagVeryGood
                   ELSE IF m >= 3 /\ c >= 30 /\ -15 <= p /\ p <= 300 THEN NagGood
                   ELSE IF m >= 2 /\ c >= 20 /\ -15 <= p /\ p <= 300 THEN NagInteresting
                   ELSE NagNull
            /\ (m = 4 /\ c = 45 /\ p = 100 /\ e = 50) => nagResult = NagVeryGood
            /\ (m = 4 /\ c = 44 /\ p = 100 /\ e = 50) => nagResult = NagGood

C3_Witness ==
    /\ GoodNagReturned
    /\ nagCall.moveChanges = 4
    /\ nagCall.complexityNumber = 44
    /\ CallPosScore = 100
    /\ CallEngScore = 50
    /\ nagResult = NagGood

----------------------------------------------------------------------------
(* Claims about the writer, under SpecWriter *)

CallMade == ~IsNone(lastCall)
\* the arguments of the call just made
Arg == Val(lastCall)
NotOver == CallMade /\ ~Arg.isGameOver
PlayedIsEngMove == Arg.engMove = Some(Arg.sanMove)
StripNL(text) == SelectSeq(text, LAMBDA t : t.k # "nl")
NagsOf(text) == {text[i].s : i \in {j \in DOMAIN text : text[j].k = "nag"}}
NumsOf(text) == {text[i] : i \in {j \in DOMAIN text : text[j].k = "num"}}
\* every sub-variation opens with a move number
VariationsNumbered(text) ==
    \A i \in DOMAIN text : text[i].k = "(" => text[i + 1].k = "num"
\* the line limit of the executed case: 4 for a bare move or a move with its score,
\* 2 for a case with a book or an engine move
LimitOfCase ==
    IF Arg.isGameOver \/ (IsNone(Arg.bookMove) /\ IsNone(Arg.engMove)) THEN 4 ELSE 2

\* C4: whenever a move is written with a posScore and an engine move present and the
\* game not over, the glyph written with the played move is GetBadNag(posScore, engScore)
\* when the played move differs from the engine move and GetGoodNag(posScore, engScore,
\* complexityNumber, moveChanges) when they are equal, with or without a book move.
C4_Dispatch ==
    (NotOver /\ err = "none" /\ ~IsNone(Arg.posScore) /\ ~IsNone(Arg.engMove)) =>
        NagsOf(lastUnit) =
            {IF ~PlayedIsEngMove
             THEN GetBadNag(Arg.side, Val(Arg.posScore), Val(Arg.engScore))
             ELSE GetGoodNag(Arg.side, Val(Arg.posScore), Val(Arg.engScore),
                             Arg.complexityNumber, Arg.moveChanges)}

\* C5: for each of the 8 presence/absence combinations of posScore, bookMove and
\* engMove with the game not over, for both sides and for played = and # engine move,
\* the selected writer completes without error and appends one move unit.
C5_EveryCaseWrites ==
    NotOver =>
        /\ err = "none"
        /\ lastUnit # <<>>
        /\ San(Arg.sanMove) \in {lastUnit[i] : i \in DOMAIN lastUnit}

\* C6: when the game is over after the move, WriteNotation writes only the bare move,
\* with the move number for White and without it for Black, whatever posScore, bookMove
\* and engMove were supplied.
C6_GameOverBareMove ==
    (CallMade /\ Arg.isGameOver) =>
        /\ err = "none"
        /\ StripNL(lastUnit) =
               IF Arg.side THEN <<WhiteMoveNo(Arg.fmvn), San(Arg.sanMove)>>
               ELSE <<San(Arg.sanMove)>>

C6_Witness ==
    /\ CallMade
    /\ Arg.isGameOver
    /\ ~Arg.side
    /\ ~IsNone(Arg.posScore)
    /\ ~IsNone(Arg.bookMove)
    /\ ~IsNone(Arg.engMove)
    /\ StripNL(lastUnit) = <<San(Arg.sanMove)>>

\* C7 as stated: the unit written for a Black move contains no move number, neither
\* before the played move nor inside a sub-variation.
C7_NoBlackMoveNumber ==
    (CallMade /\ ~Arg.side) => NumsOf(lastUnit) = {}

\* C7 amended: the number 'N.' is written only on White's move, before the played move
\* and at the head of every sub-variation. The unit of a Black move holds a move number
\* exactly when it holds a sub-variation, and then as 'N...', before the played move and
\* at the head of every sub-variation; without a sub-variation it holds no number.
C7_MoveNumberStyle ==
    (CallMade /\ err = "none") =>
        IF Arg.side
        THEN /\ lastUnit[1] = WhiteMoveNo(Arg.fmvn)
             /\ NumsOf(lastUnit) = {WhiteMoveNo(Arg.fmvn)}
             /\ VariationsNumbered(lastUnit)
        ELSE /\ NumsOf(lastUnit) \subseteq {BlackMoveNo(Arg.fmvn)}
             /\ NumsOf(lastUnit) # {} <=> HasTok(lastUnit, "(")
             /\ HasTok(lastUnit, "(") => lastUnit[1] = BlackMoveNo(Arg.fmvn)
             /\ VariationsNumbered(lastUnit)

C7_Witness ==
    /\ CallMade
    /\ err = "none"
    /\ ~Arg.side
    /\ HasTok(lastUnit, "engcomment")
    /\ lastUnit[1] = BlackMoveNo(Arg.fmvn)

\* C8: in every writer case that receives an engine move (game not over), the engine
\* alternative is written if and only if the played move differs from the engine move.
C8_EngineAlternativeIff ==
    (NotOver /\ ~IsNone(Arg.engMove)) =>
        (HasTok(lastUnit, "engcomment") <=> ~PlayedIsEngMove)

\* C9 as stated: whenever a call brings the units-on-line counter to the threshold of
\* the executed case (2 or 4), the newline is written and the counter reset in that call.
C9_WrapAtThreshold ==
    (CallMade /\ err = "none" /\ Arg.cntBefore + 1 = LimitOfCase) =>
        /\ HasTok(lastUnit, "nl")
        /\ writeCnt = 0

\* C9 amended: a call writes a newline, and resets the counter, exactly when it
\* completes for a Black move and the counter, incremented, is at least the case's
\* threshold (2 with a book or engine move, 4 for a bare move or a move with its score);
\* a completed call for a White move writes no newline and leaves the counter incremented.
C9_WrapOnlyAfterBlack ==
    CallMade =>
        LET wraps == err = "none" /\ ~Arg.side /\ Arg.cntBefore + 1 >= LimitOfCase
        IN  /\ HasTok(lastUnit, "nl") <=> wraps
            /\ wraps => (writeCnt = 0 /\ lastUnit[Len(lastUnit)] = NL)
            /\ (err = "none" /\ ~wraps) => writeCnt = Arg.cntBefore + 1

C9_Witness ==
    /\ CallMade
    /\ err = "none"
    /\ Arg.side
    /\ Arg.cntBefore + 1 >= LimitOfCase
    /\ ~HasTok(lastUnit, "nl")
    /\ writeCnt = Arg.cntBefore + 1

\* the game began with a White move: the side to move and the half-moves done agree
StartedWithWhite == side = (ply % 2 = 0)
IsUnit(t) == t.k = "unit"

----------------------------------------------------------------------------
(* Claims about the annotation loop, under Spec *)

\* the game before ended in the middle of a line: a unit, not a newline, precedes
\* its result
PreviousGameEndedMidLine ==
    \E i \in 2..Len(out) : out[i].k = "result" /\ out[i - 1].k = "unit"

\* C10: the units-on-line counter is reset at the start of each game: when the first
\* move unit of a game is written the counter starts from 0, whatever value it had
\* when the game before ended.
C10_CounterResetPerGame ==
    /\ (pc = "moves" /\ ply = 0) => writeCnt = 0
    /\ (CallMade /\ ply = 0) => Arg.cntBefore = 0

C10_Witness ==
    /\ gameCnt = 2
    /\ ply = 0
    /\ pc = "written"
    /\ PreviousGameEndedMidLine
    /\ Arg.cntBefore = 0
    /\ lastUnit # <<>>

----------------------------------------------------------------------------
(* Claims about MateDistanceToValue, under SpecMate *)

MateReturned == mateValue # <<>>

\* C17: MateDistanceToValue reverses the order of the distances on each side: for
\* 0 < d1 < d2 and for d1 < d2 < 0 the value of d1 is above the value of d2; a positive
\* distance has a positive value and a negative distance a negative value.
C17_MateOrderReversing ==
    MateReturned =>
        LET d1 == mateCall[1]
            d2 == mateCall[2]
            v1 == mateValue[1]
            v2 == mateValue[2]
        IN  /\ (0 < d1 /\ d1 < d2) => v1 > v2
            /\ (d1 < d2 /\ d2 < 0) => v1 > v2
            /\ d1 > 0 => v1 > 0
            /\ d1 < 0 => v1 < 0

C17_Witness ==
    /\ mateCall = <<-2, -1>>
    /\ mateValue = <<-31996, -31998>>

\* C18: for every n of a 'score mate n' reply with |n| <= 500, zero included, the
\* value the reply is normalized to has a magnitude above 30000, the largest
\* centipawn magnitude.
C18_MateOutsideCpRange ==
    MateReturned => Abs(mateValue[1]) > 30000

----------------------------------------------------------------------------
(* Claims about the classifiers' point of view, under SpecNag *)

\* C19: both classifiers work in the mover's point of view: called for Black with
\* White-POV scores (p, e) they return what they return for White with (-p, -e).
C19_SidePovSymmetry ==
    /\ (BadNagReturned /\ ~nagCall.side) =>
           nagResult = GetBadNag(TRUE, -nagCall.posScore, -nagCall.engScore)
    /\ (GoodNagReturned /\ ~nagCall.side) =>
           nagResult = GetGoodNag(TRUE, -nagCall.posScore, -nagCall.engScore,
                                  nagCall.complexityNumber, nagCall.moveChanges)

C19_Witness ==
    /\ BadNagReturned
    /\ ~nagCall.side
    /\ nagCall.posScore = 151
    /\ nagCall.engScore = -150
    /\ nagResult = NagBlunder

----------------------------------------------------------------------------
(* Claims about a whole run and its engine requests, under SpecRun *)

IsPrefix(a, b) == Len(a) <= Len(b) /\ SubSeq(b, 1, Len(a)) = a
InSession == sess.phase \in {"uciok", "readyok", "go", "close"}
SessionLeft == sess.phase \in {"returned", "raised"}
AliveProcs == {i \in DOMAIN procs : procs[i] = "alive"}
Sent(c) == {i \in DOMAIN sess.sent : sess.sent[i].c = c}
IssuedGoOrEval == Sent("go") \cup Sent("eval") # {}
CmdRank(c) ==
    CASE c = "uci" -> 1
      [] c = "setoption" -> 2
      [] c = "isready" -> 3
      [] c = "ucinewgame" -> 4
      [] c = "position" -> 5
      [] c \in {"go", "eval"} -> 6
      [] c = "quit" -> 7

\* C11: once main has deleted a stale output file, every step leaves what the file
\* held as a prefix of what it holds afterwards, and after a fatal failure nothing
\* more is written.
C11_AppendOnly ==
    [][/\ pc # "main" => IsPrefix(out, out')
       /\ err # "none" => out' = out]_vars

C11_Witness ==
    /\ pc = "crashed"
    /\ sess.phase = "raised"
    /\ sess.kind = "SearchBeforeMove"
    /\ \E i \in DOMAIN out : out[i].k = "unit"

\* C12: one engine process per request, quit and waited for before the request
\* returns and never used again: at most one process is alive at any time, a request
\* in progress owns the last process spawned, and every process before it has exited.
C12_OneProcessPerRequest ==
    /\ Cardinality(AliveProcs) <= 1
    /\ \A i \in DOMAIN procs : i < Len(procs) => procs[i] = "exited"
    /\ InSession => (procs # <<>> /\ procs[Len(procs)] = "alive" /\ Sent("uci") = {1})
    /\ sess.phase = "returned" =>
          (procs[Len(procs)] = "exited" /\ sess.sent[Len(sess.sent)] = QuitCmd)

C12_Witness ==
    /\ Len(procs) = 3
    /\ sess.kind = "SearchBeforeMove"
    /\ sess.phase = "returned"

\* C13: a request whose output stream ended before the token one of its read loops
\* waits for does not return a result.
C13_EndOfStreamIsFatal ==
    sess.phase = "returned" => ~sess.eof

\* C14: on every way out of a request, return or exception, quit has been sent and
\* the exit of the process has been waited for.
C14_CloseOnEveryExit ==
    SessionLeft => (Sent("quit") # {} /\ procs[Len(procs)] = "exited")

\* C15: a session that issues go or eval has sent uci, then its setoption commands,
\* then isready, ucinewgame, position fen and go or eval, each once and in this order,
\* and quit, if at all, last; position fen comes right after ucinewgame; a search
\* session has set Hash and Threads to the configured values.
C15_CommandOrder ==
    IssuedGoOrEval =>
        LET sent == sess.sent
        IN  /\ \A i, j \in DOMAIN sent :
                   i < j => \/ CmdRank(sent[i].c) < CmdRank(sent[j].c)
                            \/ sent[i].c = "setoption" /\ sent[j].c = "setoption"
            /\ \A c \in {"uci", "isready", "ucinewgame", "position"} : Sent(c) # {}
            /\ \A i \in Sent("position") : i - 1 \in Sent("ucinewgame")
            /\ sess.phase = "returned" => sent[Len(sent)] = QuitCmd
            /\ sess.kind \in SearchKinds =>
                   /\ \E i \in Sent("setoption") :
                          sent[i].name = "Hash" /\ sent[i].num = opt.enghash
                   /\ \E i \in Sent("setoption") :
                          sent[i].name = "Threads" /\ sent[i].num = opt.engthreads

C15_Witness ==
    /\ sess.kind = "SearchAfterMove"
    /\ sess.phase = "returned"
    /\ Len(sess.sent) = 8

\* C16: a book probe returns a book move if and only if no 'info depth' line came
\* between go and the bestmove line; after such a line it returns no move although
\* the bestmove line carried one.
C16_BookMoveIffNoInfoDepth ==
    (sess.kind = "BookProbe" /\ sess.phase = "returned") =>
        (~IsNone(Val(sess.ret)) <=> ~sess.sawInfoDepth)

C16_Witness ==
    /\ sess.kind = "BookProbe"
    /\ sess.phase = "returned"
    /\ sess.sawInfoDepth
    /\ sess.bestMove = Some("d2d4")
    /\ Val(sess.ret) = None

ScoresOf(text, k) == {text[i].n : i \in {j \in DOMAIN text : text[j].k = k}}
SearchedMoveWritten ==
    /\ pc = "written"
    /\ opt.eval = "search"
    /\ ~IsNone(mv.rawPos)

\* C20: each point-of-view conversion is applied once. For the raw score r of the
\* position after the move, the posScore written is -r for a White move and +r for a
\* Black move, and the classifiers compare -r for either side; for the raw score q of
\* the position before the move, the engine score written is +q for White and -q for
\* Black, and the classifiers compare +q for either side.
C20_PovConversions ==
    SearchedMoveWritten =>
        LET r == Val(mv.rawPos)
        IN  /\ Arg.posScore = Some(IF Arg.side THEN -r ELSE r)
            /\ ScoresOf(lastUnit, "score") \subseteq {IF Arg.side THEN -r ELSE r}
            /\ SidePov(Arg.side, Val(Arg.posScore)) = -r
            /\ ~IsNone(mv.rawEng) =>
                   LET q == Val(mv.rawEng)
                   IN  /\ Arg.engScore = Some(IF Arg.side THEN q ELSE -q)
                       /\ ScoresOf(lastUnit, "engcomment") \subseteq {IF Arg.side THEN q ELSE -q}
                       /\ SidePov(Arg.side, Val(Arg.engScore)) = q

C20_Witness ==
    /\ SearchedMoveWritten
    /\ ~Arg.side
    /\ mv.rawPos = Some(100)
    /\ mv.rawEng = Some(-600)
    /\ ScoresOf(lastUnit, "score") = {100}
    /\ ScoresOf(lastUnit, "engcomment") = {600}

----------------------------------------------------------------------------
(* Complexity accounting *)

ComplexityReturned == ~IsNone(cxResult)

\* the samples the scan rule counts: depth 10 or more, move and depth both unlike the
\* sample before
CountedSamples(trace) ==
    {i \in 2..Len(trace) : /\ trace[i][1] >= 10
                           /\ trace[i][2] # trace[i - 1][2]
                           /\ trace[i][1] # trace[i - 1][1]}

RECURSIVE SumDepths(_, _)
SumDepths(trace, S) ==
    IF S = {} THEN 0
    ELSE LET i == CHOOSE j \in S : TRUE IN trace[i][1] + SumDepths(trace, S \ {i})

HasDeepSample(trace) == \E i \in 1..Len(trace) : trace[i][1] >= 10

\* C21: GetComplexityNumber adds the depth of every sample of depth 10 or more whose
\* move and depth both differ from the sample before it, counts those samples, and
\* gives (0, 0) for a trace without a sample of depth 10 or more.
C21_ScanRule ==
    ComplexityReturned =>
        LET r == Val(cxResult)
        IN  /\ r.exc = ""
            /\ r.complexityNumber = SumDepths(cxCall, CountedSamples(cxCall))
            /\ r.moveChanges = Cardinality(CountedSamples(cxCall))
            /\ ~HasDeepSample(cxCall) => r.complexityNumber = 0 /\ r.moveChanges = 0

DeepSamples(trace) == SelectSeq(trace, LAMBDA n : n[1] >= 10)

\* the last sample of the trace is one the scan counts
LastCounts(trace) == Len(trace) \in CountedSamples(trace)

GoodGlyphs == {NagVeryGood, NagGood, NagInteresting}

\* C23: complexity is computed only for evaluation by search with a move time of 2000 ms
\* or more; in every other configuration WriteNotation gets (0, 0), and a played move
\* that is the engine's move gets none of the glyphs for a very good, good or
\* interesting move.
C23_ComplexityOnlyForLongSearch ==
    (CallMade /\ ~(opt.eval = "search" /\ opt.movetime >= 2000)) =>
        /\ Arg.complexityNumber = 0
        /\ Arg.moveChanges = 0
        /\ PlayedIsEngMove => NagsOf(lastUnit) \cap GoodGlyphs = {}

C23_Witness ==
    /\ pc = "written"
    /\ opt.eval = "search"
    /\ opt.movetime = 1000
    /\ NotOver
    /\ PlayedIsEngMove
    /\ Arg.posScore = Some(600)
    /\ Arg.side
    /\ NagsOf(lastUnit) = {NagNull}

----------------------------------------------------------------------------
(* Claims about the steps of a half-move, under SpecRun and Spec *)

BelowStart == fmvn < opt.movestart

\* C24: a half-move below the move number of -movestart for which no book move is
\* pending is written as the raw move, and no static evaluation or search is requested
\* for it.
C24_NoEngineWorkBelowStart ==
    /\ (pc \in {"eval", "best"} /\ BelowStart) => ~IsNone(mv.cereBookMove)
    /\ (pc = "written" /\ CallMade /\ BelowStart /\ IsNone(Arg.bookMove)) =>
           /\ IsNone(Arg.posScore)
           /\ IsNone(Arg.engMove)
           /\ StripNL(lastUnit) =
                  IF Arg.side THEN <<WhiteMoveNo(Arg.fmvn), San(Arg.sanMove)>>
                  ELSE <<San(Arg.sanMove)>>

\* a step that handles one half-move, and a step that starts a game
HalfMoveStep == pc = "moves" /\ pc' \in {"written", "crashed"}
GameStartStep == pc = "game" /\ pc' = "moves"
\* the half-move just handled was looked up in the book and the book had no move
ProbeMissed == mv'.probed /\ IsNone(mv'.cereBookMove)

\* C25: once a probe finds no book move for a move number above 30 the book is
\* exhausted and no later half-move of that game is probed; a probe that finds no move
\* at move 30 or before exhausts nothing, so the next half-move is probed again; and
\* the book is never exhausted at the first half-move of a game.
C25_BookExhaustion ==
    [][/\ HalfMoveStep =>
              /\ isCereEnd => ~mv'.probed /\ isCereEnd'
              /\ (ProbeMissed /\ fmvn > BOOK_MOVE_LIMIT) => isCereEnd'
              /\ (~isCereEnd /\ ~(ProbeMissed /\ fmvn > BOOK_MOVE_LIMIT)) => ~isCereEnd'
              /\ (opt.book = "cerebellum" /\ ~isCereEnd) => mv'.probed
       /\ GameStartStep => ~isCereEnd'
       /\ (isCereEnd /\ ~GameStartStep) => isCereEnd']_vars

C25_Witness ==
    /\ pc = "written"
    /\ opt.book = "cerebellum"
    /\ isCereEnd
    /\ ~mv.probed
    /\ fmvn = 31
    /\ ply = 2

\* the score of the half-move comes from a 'score mate' reply
MateDerived == mv.rawKind = "mate"
Undecided(posScore) == Abs(Val(posScore)) <= WIN_SCORE

----------------------------------------------------------------------------
(* Claims about epd input, under SpecRun *)

TestJob == fileType = "epd" /\ opt.job = "test" /\ pc \in {"test", "testeval", "done", "crashed"}
AnnotateJob == fileType = "epd" /\ opt.job # "test" /\ pc \in {"epd", "epdeval", "done", "crashed"}
\* every record read so far has been dealt with
BetweenRecords == pc \in {"test", "epd", "done"}

\* the records that count: not mate or stalemate, and with a bm
ValidRecords == {i \in DOMAIN test.records : ~test.records[i].isGameOver /\ test.records[i].hasBm}
\* those of them for which the engine's move is one of the moves after bm
CorrectRecords ==
    {i \in ValidRecords :
        /\ ~IsNone(test.records[i].bm)
        /\ Val(test.records[i].bm) \in {test.records[i].epdBm[j] : j \in DOMAIN test.records[i].epdBm}}
NumOf(text, k) == CHOOSE n \in ScoresOf(text, k) : TRUE

\* C27: in the test job the number of tested positions is the number of records that
\* are not mate or stalemate and have a bm, the number of correct ones is the number of
\* those whose engine move is one of the record's bm moves, 0 <= correct <= tested <=
\* lines read at every moment, and the percentage in the summary is 100 * correct /
\* tested to one decimal, 0.0 when nothing was tested.
C27_TestAggregation ==
    TestJob =>
        LET N == test.cntValidEpd
            C == test.cntCorrect
        IN  /\ 0 <= C /\ C <= N /\ N <= ply
            /\ ply = Len(test.records)
            /\ BetweenRecords => N = Cardinality(ValidRecords) /\ C = Cardinality(CorrectRecords)
            /\ (pc = "done" /\ err = "none") =>
                   /\ ScoresOf(lastUnit, "total") = {ply}
                   /\ ScoresOf(lastUnit, "tested") = {N}
                   /\ ScoresOf(lastUnit, "correct") = {C}
                   /\ LET tenths == NumOf(lastUnit, "pct")
                      IN  IF N = 0 THEN tenths = 0
                          ELSE 2 * Abs(tenths * N - 1000 * C) <= N

C27_Witness ==
    /\ TestJob
    /\ pc = "done"
    /\ test.cntValidEpd = 2
    /\ test.cntCorrect = 1
    /\ test.records[1].epdBm = <<"Nf3", "e5">>
    /\ test.records[1].bm = Some("e5")
    /\ ScoresOf(lastUnit, "pct") = {500}

\* the search of an epd record that ends with bestmove e7e5 after a last depth of 20
\* and a last score of cp 30
ReportsE5(s) ==
    /\ s.kind = "EpdSearch"
    /\ s.bestMove = Some("e7e5")
    /\ s.depthSearched = 20
    /\ s.scoreCp = 30
E5Line == <<Tok("acd", 20, ""), Tok("acs", opt.movetime \div 1000, ""), Tok("bm", 0, "e5"), Tok("ce", 30, "")>>

\* C28: when the search of a record reports bestmove e5, depth 20 and score cp 30, the
\* annotate job appends one line with acd 20, acs movetime / 1000 as an integer, bm e5,
\* ce +30 and the engine's name, and the test job counts the record as tested and as
\* correct when its bm moves are e5 and e6.
C28_EpdSearchEndToEnd ==
    [][/\ (pc = "epdeval" /\ pc' = "epd" /\ ReportsE5(sess)) =>
              /\ lastUnit' = E5Line \o AeToks(engIdName)
              /\ Len(out') = Len(out) + 1
       /\ (pc = "testeval" /\ pc' = "test" /\ ReportsE5(sess)
             /\ test.records[ply].epdBm = <<"e5", "e6">>) =>
              /\ test'.cntValidEpd = test.cntValidEpd + 1
              /\ test'.cntCorrect = test.cntCorrect + 1]_vars

C28_Witness ==
    /\ AnnotateJob
    /\ pc = "epd"
    /\ sess.phase = "used"
    /\ ReportsE5(sess)
    /\ engIdName = <<"Stockfish", "8">>
    /\ lastUnit = <<Tok("acd", 20, ""), Tok("acs", 2, ""), Tok("bm", 0, "e5"), Tok("ce", 30, ""),
                    Tok("Ae", 1, "Stockfish"), Tok("Ae", 2, "8")>>

\* the records read so far that have been dealt with to the end
RecordsDone == IF BetweenRecords THEN Len(test.records) ELSE Len(test.records) - 1
NonTerminal(S) == {i \in S : ~test.records[i].isGameOver}

\* C29: the annotate job on an epd input appends exactly one line for every record
\* whose position is not mate or stalemate and none for the others, in the order of the
\* records; it makes one engine request for each record that is not mate or stalemate,
\* none for the others, and never a book probe.
C29_EpdAnnotateOrder ==
    AnnotateJob =>
        /\ Len(out) = Cardinality(NonTerminal(1..RecordsDone))
        /\ \A k \in DOMAIN out :
               /\ out[k].k = "epd"
               /\ out[k].n \in NonTerminal(1..RecordsDone)
               /\ out[k].s = SideName(test.records[out[k].n].side)
               /\ k > 1 => out[k - 1].n < out[k].n
        /\ Len(procs) = 1 + Cardinality(NonTerminal(DOMAIN test.records))
        /\ sess.kind \in {"none", "Identify", "EpdStaticEval", "EpdSearch"}

C29_Witness ==
    /\ AnnotateJob
    /\ pc = "epd"
    /\ ply = 2
    /\ test.records[1].isGameOver
    /\ ~test.records[2].isGameOver
    /\ Len(procs) = 2
    /\ out = <<Tok("epd", 2, "b")>>

----------------------------------------------------------------------------
(* Claims about the start of a run, under SpecRun *)

\* the command line fails one of the startup checks
InvalidCommandLine ==
    \/ ~cfg.infile
    \/ cfg.sameName
    \/ ~cfg.engfile
    \/ cfg.ext \notin {"epd", "pgn"}
    \/ cfg.ext = "pgn" /\ opt.book = "none" /\ opt.eval = "none"
    \/ cfg.ext = "epd" /\ opt.movetime <= 0
    \/ cfg.ext = "epd" /\ opt.job # "test" /\ opt.eval = "none"
    \/ cfg.ext = "pgn" /\ opt.job # "analyze"

\* C30: a command line that fails a startup check ends the program before any engine
\* process is spawned and with the output file neither deleted nor written.
C30_ConfigurationErrorsFatal ==
    [][/\ (pc = "start" /\ InvalidCommandLine) => pc' = "exited"
       /\ pc' = "exited" => out' = out /\ procs' = <<>> /\ sess' = NoSession]_vars

C30_Witness ==
    /\ pc = "exited"
    /\ cfg = [NoCfg EXCEPT !.ext = "epd"]
    /\ opt.movetime = 0
    /\ opt.eval = "static"
    /\ out = StaleOutput
    /\ procs = <<>>

----------------------------------------------------------------------------
(* Claims about the output of AnnotatePgn as a whole, under Spec *)

\* where the tag section of the game being annotated sits in the output file
GameStartIndex == CHOOSE i \in DOMAIN out : out[i] = Tok("tags", gameCnt, "")
\* the move units written for the game being annotated
GameUnits == SelectSeq(SubSeq(out, GameStartIndex, Len(out)), LAMBDA t : t.k = "unit")
\* the half-moves of the game whose pass of the move loop is over
HalfMovesDone == ply + (IF pc \in {"written", "crashed"} THEN 1 ELSE 0)
\* the unit of a half-move is followed by the unit of the next half-move
NextHalfMove(u, w) ==
    IF u.s = SideName(TRUE) THEN w.n = u.n /\ w.s = SideName(FALSE)
    ELSE w.n = u.n + 1 /\ w.s = SideName(TRUE)
\* the tag sections and results written so far: game 1, its result, game 2, ...
GameFrames == SelectSeq(out, LAMBDA t : t.k \in {"tags", "result"})

\* C32: for every pgn command line that passes the startup checks, -eval none with the
\* cerebellum book included, every half-move of every game leaves exactly one move
\* unit in the output, the units of a game follow the order of its moves, they come
\* after the game's tags and Annotator tag and before its result, and the games keep
\* the order of the input.
C32_OneUnitPerHalfMove ==
    /\ pc \in {"moves", "written", "ended", "crashed"} =>
          /\ Len(GameUnits) = HalfMovesDone
          /\ \A i \in 1..(Len(GameUnits) - 1) : NextHalfMove(GameUnits[i], GameUnits[i + 1])
          /\ out[GameStartIndex + 1].k = "annotator"
          /\ \A i \in (GameStartIndex + 1)..Len(out) : out[i].k # "result"
    /\ Len(GameFrames) = (IF pc \in {"begin", "game", "done"} THEN 2 * gameCnt
                          ELSE 2 * gameCnt - 1)
    /\ \A i \in DOMAIN GameFrames :
          GameFrames[i] = Tok(IF i % 2 = 1 THEN "tags" ELSE "result", (i + 1) \div 2, "")
    /\ (pc = "game" /\ gameCnt > 0) => out[Len(out)] = Tok("result", gameCnt, "")

----------------------------------------------------------------------------
(* Claims about a missing book file, under SpecRun *)

\* the cerebellum book was asked for and its file is not there
BookUnavailable == opt.book = "cerebellum" /\ ~cfg.cereBookFile

\* C31: a missing book file never ends the run: a command line that asks for the
\* cerebellum book and passes every startup check with the book file in place also
\* goes on to the annotation without it, with the book set to none, and no book probe
\* is ever sent in a run whose book file is missing.
C31_BookUnavailableNotFatal ==
    [][/\ (pc = "start" /\ BookUnavailable /\ ~InvalidCommandLine) =>
             (pc' = "main" /\ opt'.book = "none")
       /\ ~cfg.cereBookFile => sess'.kind # "BookProbe"]_vars

----------------------------------------------------------------------------
(* Claims about GetComplexityNumber as a function, under SpecComplexity *)

\* C34: GetComplexityNumber returns a pair for every list of samples, also for a list
\* whose first sample has depth 10 or more; it never raises.
C34_ComplexityTotal == ComplexityReturned => Val(cxResult).exc = ""

\* C35: whenever GetComplexityNumber returns, complexityNumber is at least ten times
\* moveChanges, moveChanges is at most the number of samples of depth 10 or more, and
\* complexityNumber is 0 exactly when moveChanges is 0.
C35_ComplexityBounds ==
    (ComplexityReturned /\ Val(cxResult).exc = "") =>
        LET r == Val(cxResult)
        IN  /\ r.complexityNumber >= 10 * r.moveChanges
            /\ r.moveChanges <= Len(DeepSamples(cxCall))
            /\ r.complexityNumber = 0 <=> r.moveChanges = 0

C35_Witness ==
    /\ cxCall = <<<<9, "e7e5">>, <<10, "g8f6">>, <<11, "e7e5">>>>
    /\ ComplexityReturned
    /\ Val(cxResult) = [complexityNumber |-> 21, moveChanges |-> 2, exc |-> ""]

----------------------------------------------------------------------------
(* Claims about one search, under SpecSearch *)

SearchEnded == pc = "search" /\ sess.phase = "returned"
\* the lines of the search that carry 'score cp ' or 'score mate '
ScoreLines == SelectSeq(heard, LAMBDA l : l.t = "info" /\ l.sk \in {"cp", "mate"})
\* the lines of the search a complexity trace is made of
PvLines == SelectSeq(heard, LAMBDA l : l.t = "info" /\ l.pv # "" /\ ~l.bound)
HeardBestMove == \E i \in DOMAIN heard : heard[i].t = "bestmove"
ScoreOfLine(l) == IF l.sk = "cp" THEN l.sv ELSE MateDistanceToValue(l.sv)
ScoreReturned ==
    CASE sess.kind = "SearchAfterMove" -> Val(sess.ret)[1]
      [] sess.kind = "SearchBeforeMove" -> Val(sess.ret)[2]
      [] sess.kind = "EpdSearch" -> Val(sess.ret)[4]
ScoreDue(l) ==
    CASE sess.kind = "SearchAfterMove" -> SearchScoreAfterMove(sess.side, ScoreOfLine(l))
      [] sess.kind = "SearchBeforeMove" -> SearchScoreBeforeMove(sess.side, ScoreOfLine(l))
      [] sess.kind = "EpdSearch" -> ScoreOfLine(l)

\* C36: a search that returns has read at least one line with a score, and returns
\* the score of the last of them, bound or not; the trace kept for the complexity
\* number is made of the pv lines without a bound, in order; a search that has read
\* bestmove and no line with a score does not return
C36_LastScoreLineWins ==
    /\ SearchEnded =>
          /\ ScoreLines # <<>>
          /\ ScoreReturned = ScoreDue(ScoreLines[Len(ScoreLines)])
    /\ (pc = "search" /\ sess.kind = "SearchAfterMove" /\ IsGetComplexityNumber) =>
          sess.savedMove = [i \in DOMAIN PvLines |-> <<PvLines[i].depth, PvLines[i].pv>>]
    /\ (HeardBestMove /\ ScoreLines = <<>>) => sess.phase \in {"close", "raised"}

C36_Witness ==
    /\ SearchEnded
    /\ sess.kind = "SearchAfterMove"
    /\ ~sess.side
    /\ IsGetComplexityNumber
    /\ heard = <<InfoLine(9, "cp", -600, "e7e5", FALSE), InfoLine(12, "cp", 100, "g8f6", TRUE),
                 BestMoveLine("e7e5")>>
    /\ sess.savedMove = <<<<9, "e7e5">>>>
    /\ ScoreReturned = 100

----------------------------------------------------------------------------
(* Claims about termination, under SpecRunFair *)

\* the run is over: every game or record processed, or a fatal failure
RunOver == pc \in {"done", "crashed", "exited"}
\* the run is inside a read loop of an engine session
Waiting == sess.phase \in {"uciok", "readyok", "go"}
\* the run is cut where it would start request MaxRequests + 1
RequestsSpent == Len(procs) = MaxRequests /\ ~ENABLED <<NextRun>>_vars

====
